---- MODULE Spec2Model ----
(***************************************************************************)
(* ViralClip: the video manifest and the Director that edits it.           *)
(*                                                                         *)
(* A manifest, a caption, a clip and a theme are JavaScript objects; they  *)
(* are modelled as functions from field names to values, so that an        *)
(* optional field that is absent is a name missing from the DOMAIN, and    *)
(* the object spread {...a, ...b} is Spread(a, b).                         *)
(***************************************************************************)
EXTENDS Integers, Sequences, FiniteSets, TLC

VARIABLES manifest, aiConfigured, last

vars == <<manifest, aiConfigured, last>>

-----------------------------------------------------------------------------
(* Bounds of the model *)

\* the largest version an edit may produce (caps the version counter)
MaxVersion == 3
\* the largest number of clips of an initial manifest
MaxClips == 3
\* the largest number of captions of an initial manifest
MaxCaptions == 2

-----------------------------------------------------------------------------
(* JavaScript helpers *)

\* {...base, ...over}: the fields of over win
Spread(base, over) == over @@ base

\* obj.field of an object that may lack it (undefined is "undefined")
Undefined == "undefined"
Get(obj, field) == IF field \in DOMAIN obj THEN obj[field] ELSE Undefined
Has(obj, field) == field \in DOMAIN obj

\* String.prototype.includes
Includes(str, sub) ==
  \E i \in 1..(Len(str) - Len(sub) + 1) : SubSeq(str, i, i + Len(sub) - 1) = sub

UpperChars == <<"A","B","C","D","E","F","G","H","I","J","K","L","M",
                "N","O","P","Q","R","S","T","U","V","W","X","Y","Z">>
LowerChars == <<"a","b","c","d","e","f","g","h","i","j","k","l","m",
                "n","o","p","q","r","s","t","u","v","w","x","y","z">>

LowerChar(ch) ==
  IF \E k \in 1..Len(UpperChars) : UpperChars[k] = ch
  THEN LowerChars[CHOOSE k \in 1..Len(UpperChars) : UpperChars[k] = ch]
  ELSE ch

\* leaves the case as it is
toLowerCaseMutant(str) == str
\* String.prototype.toLowerCase
RECURSIVE toLowerCase(_)
toLowerCase(str) ==
  IF Len(str) = 0 THEN ""
  ELSE LowerChar(SubSeq(str, 1, 1)) \o toLowerCase(SubSeq(str, 2, Len(str)))

\* Array.prototype.join("\n") of a sequence of strings
RECURSIVE JoinLines(_)
JoinLines(strs) ==
  IF Len(strs) = 0 THEN ""
  ELSE IF Len(strs) = 1 THEN strs[1]
  ELSE strs[1] \o "\n" \o JoinLines(Tail(strs))

Min(a, b) == IF a <= b THEN a ELSE b

\* Math.floor(a / b) for b > 0
FloorDiv(a, b) == a \div b

-----------------------------------------------------------------------------
(* Theme registry *)

ThemeIds == {"cyber", "luxe", "minimal"}

\* kenBurnsScale is kept in hundredths (1.15 is 115)
THEME_PRESETS ==
  [cyber |->
     [id |-> "cyber", name |-> "Cyberpunk", primaryColor |-> "#00ff88",
      secondaryColor |-> "#ff0066", accentColor |-> "#00ffff",
      backgroundColor |-> "#0a0a0f", fontFamily |-> "Oswald",
      transition |-> "glitch", musicGenre |-> "techno", clipDuration |-> 45,
      textAnimation |-> "glitch", kenBurnsEnabled |-> FALSE,
      kenBurnsScale |-> 100],
   luxe |->
     [id |-> "luxe", name |-> "Luxury", primaryColor |-> "#d4af37",
      secondaryColor |-> "#1a1a1a", accentColor |-> "#ffffff",
      backgroundColor |-> "#0d0d0d", fontFamily |-> "Playfair Display",
      transition |-> "fade", musicGenre |-> "classical", clipDuration |-> 90,
      textAnimation |-> "minimal", kenBurnsEnabled |-> TRUE,
      kenBurnsScale |-> 115],
   minimal |->
     [id |-> "minimal", name |-> "Minimal", primaryColor |-> "#ffffff",
      secondaryColor |-> "#888888", accentColor |-> "#000000",
      backgroundColor |-> "#f5f5f5", fontFamily |-> "Inter",
      transition |-> "slide", musicGenre |-> "lofi", clipDuration |-> 60,
      textAnimation |-> "typewriter", kenBurnsEnabled |-> TRUE,
      kenBurnsScale |-> 108]]

\* THEME_PRESETS[themeId] is undefined for an id outside the catalog
KnownTheme(themeId) == themeId \in DOMAIN THEME_PRESETS

-----------------------------------------------------------------------------
(* Manifest transformation operations *)

\* (manifest.version || 1) + 1
BumpVersion(m) ==
  (IF ~Has(m, "version") \/ m.version = 0 THEN 1 ELSE m.version) + 1

SetTransition(theme, clip) == Spread(clip, [transition |-> theme.transition])

\* rebuilds the caption from its required fields
SetStyleMutant(theme, caption) ==
  [k \in {"startFrame", "endFrame", "text", "style", "position"} |->
     IF k = "style" THEN theme.textAnimation ELSE caption[k]]
SetStyle(theme, caption) == Spread(caption, [style |-> theme.textAnimation])

\* reads the transition and the text animation of the theme the manifest
\* had, not of the theme being applied
applyThemeMutant(m, themeId, now) ==
  IF ~KnownTheme(themeId) THEN m
  ELSE LET stale == IF Has(m, "theme") THEN m.theme ELSE THEME_PRESETS.cyber
       IN Spread(m, [theme |-> THEME_PRESETS[themeId],
                     clips |-> [i \in 1..Len(m.clips) |->
                                  Spread(m.clips[i], [transition |-> stale.transition])],
                     captions |-> [i \in 1..Len(m.captions) |->
                                     Spread(m.captions[i], [style |-> stale.textAnimation])],
                     version |-> BumpVersion(m), updatedAt |-> now])
applyTheme(m, themeId, now) ==
  IF ~KnownTheme(themeId) THEN m
  ELSE LET theme == THEME_PRESETS[themeId]
           updatedClips == [i \in 1..Len(m.clips) |-> SetTransition(theme, m.clips[i])]
           updatedCaptions == [i \in 1..Len(m.captions) |-> SetStyle(theme, m.captions[i])]
       IN Spread(m, [theme |-> theme,
                     clips |-> updatedClips,
                     captions |-> updatedCaptions,
                     version |-> BumpVersion(m),
                     updatedAt |-> now])

\* the theme picker leaves the captions' styles as they were
switchThemeMutant(m, themeId, now) ==
  IF ~KnownTheme(themeId) THEN m
  ELSE LET theme == THEME_PRESETS[themeId]
       IN Spread(m, [theme |-> theme,
                     clips |-> [i \in 1..Len(m.clips) |->
                                  Spread(m.clips[i], [transition |-> theme.transition])],
                     version |-> BumpVersion(m),
                     updatedAt |-> now])

\* forgets the cap
actualClipDurationMutant(m, clipDuration) == clipDuration
actualClipDuration(m, clipDuration) ==
  Min(clipDuration, FloorDiv(m.durationInFrames, Len(m.clips)))

adjustTiming(m, clipDuration, now) ==
  IF Len(m.clips) = 0 THEN m
  ELSE LET actual == actualClipDuration(m, clipDuration)
           updatedClips ==
             [i \in 1..Len(m.clips) |->
                Spread(m.clips[i], [startFrame |-> (i - 1) * actual,
                                    duration |-> actual])]
       IN Spread(m, [clips |-> updatedClips,
                     version |-> BumpVersion(m),
                     updatedAt |-> now])

\* captions.map(c => c.text).join("\n")
ScriptOf(captions) == JoinLines([i \in 1..Len(captions) |-> captions[i].text])

\* leaves the script as it was
updateCaptionNoScript(m, captionIndex, newText, now) ==
  IF captionIndex < 0 \/ captionIndex >= Len(m.captions) THEN m
  ELSE Spread(m, [captions |-> [i \in 1..Len(m.captions) |->
                                  IF i = captionIndex + 1
                                  THEN Spread(m.captions[i], [text |-> newText])
                                  ELSE m.captions[i]],
                  version |-> BumpVersion(m),
                  updatedAt |-> now])

\* accepts the index one past the end
updateCaptionOffByOne(m, captionIndex, newText, now) ==
  IF captionIndex < 0 \/ captionIndex > Len(m.captions) THEN m
  ELSE LET updatedCaptions ==
             [i \in 1..Len(m.captions) |->
                IF i = captionIndex + 1
                THEN Spread(m.captions[i], [text |-> newText])
                ELSE m.captions[i]]
       IN Spread(m, [captions |-> updatedCaptions,
                     script |-> ScriptOf(updatedCaptions),
                     version |-> BumpVersion(m),
                     updatedAt |-> now])

\* captionIndex is the JavaScript (0-based) index
updateCaption(m, captionIndex, newText, now) ==
  IF captionIndex < 0 \/ captionIndex >= Len(m.captions) THEN m
  ELSE LET updatedCaptions ==
             [i \in 1..Len(m.captions) |->
                IF i = captionIndex + 1
                THEN Spread(m.captions[i], [text |-> newText])
                ELSE m.captions[i]]
       IN Spread(m, [captions |-> updatedCaptions,
                     script |-> ScriptOf(updatedCaptions),
                     version |-> BumpVersion(m),
                     updatedAt |-> now])

\* the theme picker's server action
switchTheme(m, themeId, now) ==
  IF ~KnownTheme(themeId) THEN m
  ELSE LET theme == THEME_PRESETS[themeId]
       IN Spread(m, [theme |-> theme,
                     clips |-> [i \in 1..Len(m.clips) |->
                                  Spread(m.clips[i], [transition |-> theme.transition])],
                     captions |-> [i \in 1..Len(m.captions) |->
                                     Spread(m.captions[i], [style |-> theme.textAnimation])],
                     version |-> BumpVersion(m),
                     updatedAt |-> now])

quickThemeChange(m, themeId, now) == applyTheme(m, themeId, now)

-----------------------------------------------------------------------------
(* Director: tier 1, the keyword rules *)

luxeKeywords == <<"luxe", "luxur", "premium", "elegant", "gold">>
cyberKeywords == <<"cyber", "neon", "energy", "hype", "intense", "vibrant">>
minimalKeywords == <<"minimal", "clean", "simple", "subtle", "calm">>
fasterKeywords == <<"faster", "speed up", "quicker", "rapid">>
slowerKeywords == <<"slower", "slow down", "calm", "relaxed">>
colorTargets == <<"text", "caption", "color">>
biggerKeywords == <<"bigger", "larger">>
smallerKeywords == <<"smaller">>
bolderKeywords == <<"bolder", "thicker">>
thinnerKeywords == <<"thinner", "lighter font">>

\* Object.entries(colorKeywords), in insertion order
colorKeywords ==
  << <<"red", "#ff0000">>, <<"blue", "#0088ff">>, <<"green", "#00ff88">>,
     <<"yellow", "#ffff00">>, <<"orange", "#ff8800">>, <<"pink", "#ff00aa">>,
     <<"purple", "#aa00ff">>, <<"white", "#ffffff">>, <<"black", "#000000">>,
     <<"cyan", "#00ffff">>, <<"magenta", "#ff00ff">> >>

\* lowerMessage.includes(k1) || lowerMessage.includes(k2) || ...
IncludesAny(lowerMessage, keywords) ==
  \E k \in 1..Len(keywords) : Includes(lowerMessage, keywords[k])

\* the entries of colorKeywords whose name the message includes
ColorHits(lowerMessage) ==
  {k \in 1..Len(colorKeywords) : Includes(lowerMessage, colorKeywords[k][1])}

ColorRuleMatches(lowerMessage) ==
  /\ ColorHits(lowerMessage) # {}
  /\ IncludesAny(lowerMessage, colorTargets)

\* the for loop returns at the first entry that matches
MatchedColor(lowerMessage) ==
  LET hits == ColorHits(lowerMessage)
  IN colorKeywords[CHOOSE k \in hits : \A j \in hits : k <= j]

\* the rule the keyword tier applies, "none" when the tier falls through
KeywordRule(lowerMessage) ==
  IF IncludesAny(lowerMessage, luxeKeywords) THEN "luxe"
  ELSE IF IncludesAny(lowerMessage, cyberKeywords) THEN "cyber"
  ELSE IF IncludesAny(lowerMessage, minimalKeywords) THEN "minimal"
  ELSE IF IncludesAny(lowerMessage, fasterKeywords) THEN "faster"
  ELSE IF IncludesAny(lowerMessage, slowerKeywords) THEN "slower"
  ELSE IF ColorRuleMatches(lowerMessage) THEN "color"
  ELSE IF IncludesAny(lowerMessage, biggerKeywords) THEN "bigger"
  ELSE IF IncludesAny(lowerMessage, smallerKeywords) THEN "smaller"
  ELSE IF IncludesAny(lowerMessage, bolderKeywords) THEN "bolder"
  ELSE IF IncludesAny(lowerMessage, thinnerKeywords) THEN "thinner"
  ELSE "none"

\* the commands typed into the chat
Commands ==
  { "make it luxurious", "GOLD please", "asdfqwerty123", "make the text red",
    "make the colored text blue", "Caption in Cyan", "add energy", "calm",
    "speed up the cuts", "slow down", "make it bigger", "smaller", "bolder",
    "thinner", "luxe but faster and bigger" }

\* userMessage.toLowerCase() and the rule it matches, for each command
lowerMessageOf == [c \in Commands |-> toLowerCase(c)]
RuleOf == [c \in Commands |-> KeywordRule(lowerMessageOf[c])]

FasterClipDuration == 30
SlowerClipDuration == 90
BolderWeight == 900
ThinnerWeight == 400
BiggerFontSize == "clamp(64px, 12vw, 120px)"
SmallerFontSize == "clamp(32px, 5vw, 48px)"

\* restyles the first caption only
StyleAllCaptionsMutant(m, override, now) ==
  Spread(m, [captions |-> [i \in 1..Len(m.captions) |->
                             IF i = 1 THEN Spread(m.captions[i], override)
                             ELSE m.captions[i]],
             version |-> BumpVersion(m),
             updatedAt |-> now])
\* currentManifest.captions.map(c => ({...c, ...override})) with the version bump
StyleAllCaptions(m, override, now) ==
  Spread(m, [captions |-> [i \in 1..Len(m.captions) |->
                             Spread(m.captions[i], override)],
             version |-> BumpVersion(m),
             updatedAt |-> now])

Action(type, payload, reasoning) ==
  [type |-> type, payload |-> payload, reasoning |-> reasoning]

Response(m, actions, message) ==
  [manifest |-> m, actions |-> actions, message |-> message]

ThemeRuleResponse(m, themeId, reasoning, message, now) ==
  Response(applyTheme(m, themeId, now),
           <<Action("change_theme", [themeId |-> themeId], reasoning)>>,
           message)

TimingRuleResponse(m, clipDuration, reasoning, message, now) ==
  Response(adjustTiming(m, clipDuration, now),
           <<Action("adjust_timing", [clipDuration |-> clipDuration], reasoning)>>,
           message)

StyleRuleResponse(m, override, reasoning, message, now) ==
  Response(StyleAllCaptions(m, override, now),
           <<Action("style_caption", Spread([allCaptions |-> TRUE], override),
                    reasoning)>>,
           message)

\* the response of the keyword tier for a rule other than "none"
KeywordResponse(rule, lowerMessage, m, now) ==
  CASE rule = "luxe" ->
         ThemeRuleResponse(m, "luxe", "User requested luxury aesthetic",
           "I've applied the Luxe theme! Gold tones, elegant fades, and Ken Burns zoom effects for a premium feel.", now)
    [] rule = "cyber" ->
         ThemeRuleResponse(m, "cyber", "User requested energetic/cyberpunk aesthetic",
           "Switched to Cyber theme! Neon colors, glitch effects, and fast cuts for maximum energy.", now)
    [] rule = "minimal" ->
         ThemeRuleResponse(m, "minimal", "User requested minimal aesthetic",
           "Applied Minimal theme! Clean slides, typewriter text, and lofi vibes.", now)
    [] rule = "faster" ->
         TimingRuleResponse(m, FasterClipDuration, "User wants faster pace",
           "Done! Clips are now faster for a more dynamic feel.", now)
    [] rule = "slower" ->
         TimingRuleResponse(m, SlowerClipDuration, "User wants slower pace",
           "Slowed things down for a more cinematic, luxurious feel.", now)
    [] rule = "color" ->
         LET entry == MatchedColor(lowerMessage)
         IN StyleRuleResponse(m, [color |-> entry[2]],
              "User wants " \o entry[1] \o " text",
              "Done! All captions are now " \o entry[1] \o ".", now)
    [] rule = "bigger" ->
         StyleRuleResponse(m, [fontSize |-> BiggerFontSize],
           "User wants bigger text", "Made all captions bigger!", now)
    [] rule = "smaller" ->
         StyleRuleResponse(m, [fontSize |-> SmallerFontSize],
           "User wants smaller text", "Made all captions smaller!", now)
    [] rule = "bolder" ->
         StyleRuleResponse(m, [fontWeight |-> BolderWeight],
           "User wants bolder text", "Made all captions bolder!", now)
    [] rule = "thinner" ->
         StyleRuleResponse(m, [fontWeight |-> ThinnerWeight],
           "User wants thinner text", "Made all captions thinner!", now)

-----------------------------------------------------------------------------
(* Director: tier 2, the LLM-assisted edit *)

\* the candidate models, in the order they are tried
models == <<"gemini-3-flash-preview", "gemini-2.5-flash", "gemini-2.0-flash">>

RetryableStatuses == {"429", "503"}

\* statuses[k] is what generateContent does for models[k]: "ok" when it
\* resolves, otherwise the status of the error it throws ("none": no status).
\* The loop from model k on: got says whether a response was obtained
\* (otherwise the try block throws), calls how many models were called.
RECURSIVE TryModels(_, _)
TryModels(statuses, k) ==
  IF k > Len(models) THEN [got |-> FALSE, calls |-> Len(models)]
  ELSE IF statuses[k] = "ok" THEN [got |-> TRUE, calls |-> k]
  ELSE IF statuses[k] \notin RetryableStatuses THEN [got |-> FALSE, calls |-> k]
  ELSE TryModels(statuses, k + 1)

\* goes on to the next model after any failure
RECURSIVE CallTraceMutant(_, _)
CallTraceMutant(statuses, k) ==
  IF k > Len(models) THEN <<>>
  ELSE <<[model |-> models[k], status |-> statuses[k]]>>
       \o (IF statuses[k] = "ok" THEN <<>> ELSE CallTraceMutant(statuses, k + 1))
\* the generateContent calls the loop makes from model k on, in order, each
\* with what it did
RECURSIVE CallTrace(_, _)
CallTrace(statuses, k) ==
  IF k > Len(models) THEN <<>>
  ELSE <<[model |-> models[k], status |-> statuses[k]]>>
       \o (IF statuses[k] \in RetryableStatuses THEN CallTrace(statuses, k + 1)
           ELSE <<>>)

\* What JSON.parse makes of a piece of the response text:
\*   [kind |-> "nomatch"]   the regular expression found no such piece
\*   [kind |-> "invalid"]   JSON.parse throws
\*   [kind |-> "null"]      the JSON value null
\*   [kind |-> "object", value |-> v]   a JSON object v
\* A text is [block |-> p, brace |-> q]: p for the first fenced code block,
\* q for the substring from the first "{" to the last "}".
Parsed(piece) == piece.kind \in {"null", "object"}

Null == [kind |-> "null"]

extractJSON(text) ==
  IF Parsed(text.block) THEN text.block
  ELSE IF Parsed(text.brace) THEN text.brace
  ELSE Null

\* default segment length handed to createMockVideoIndex
MockIndexDuration == 30

createMockVideoIndex(videoUrl, duration, now) ==
  [videoId |-> "mock_" \o now, videoUrl |-> videoUrl, duration |-> duration,
   segments |-> <<[label |-> "Product Close-up", startTime |-> 0, endTime |-> 5],
                  [label |-> "Unboxing", startTime |-> 5, endTime |-> 12],
                  [label |-> "Human Interaction", startTime |-> 12, endTime |-> 20],
                  [label |-> "Wide Shot", startTime |-> 20, endTime |-> 25],
                  [label |-> "Product in Use", startTime |-> 25, endTime |-> 30]>>,
   indexed |-> TRUE]

\* the manifest searchVideoSegment returns: the one it was given, with a
\* placeholder index put into it when it has none and the product has a video
searchVideoSegment(m, query, now) ==
  IF Has(m, "videoIndex") THEN m
  ELSE IF Has(m.product, "videoUrl")
       THEN Spread(m, [videoIndex |->
                         createMockVideoIndex(m.product.videoUrl, MockIndexDuration, now)])
       ELSE m

NoFields == [f \in {} |-> f]

\* one round of the switch over action.type; the action is an object
ApplyAction(m, action, now) ==
  LET type == Get(action, "type")
      payload == IF Has(action, "payload") THEN action.payload ELSE NoFields
  IN CASE type = "change_theme" ->
            IF Has(payload, "themeId") /\ payload.themeId # ""
               /\ KnownTheme(payload.themeId)
            THEN applyTheme(m, payload.themeId, now) ELSE m
       [] type = "adjust_timing" ->
            IF Has(payload, "clipDuration") /\ payload.clipDuration > 0
            THEN adjustTiming(m, payload.clipDuration, now) ELSE m
       [] type = "update_text" ->
            IF Has(payload, "captionIndex") /\ Has(payload, "newText")
               /\ payload.newText # ""
            THEN updateCaption(m, payload.captionIndex, payload.newText, now) ELSE m
       [] type = "search_video" ->
            IF Has(payload, "query") /\ payload.query # ""
            THEN searchVideoSegment(m, payload.query, now) ELSE m
       [] OTHER -> m

\* an entry of the actions array that is null: reading its type throws
IsNullAction(action) == Has(action, "isNull")

\* the for loop over parsed.actions from entry k on
RECURSIVE ApplyActions(_, _, _, _)
ApplyActions(m, actions, k, now) ==
  IF k > Len(actions) THEN [threw |-> FALSE, manifest |-> m]
  ELSE IF IsNullAction(actions[k]) THEN [threw |-> TRUE, manifest |-> m]
  ELSE ApplyActions(ApplyAction(m, actions[k], now), actions, k + 1, now)

\* the calls of searchVideoSegment the loop makes from entry k on: the
\* manifest each call was given, and that same object once the call has
\* returned (the placeholder index is assigned into the argument itself,
\* manifest.videoIndex = ..., and the argument is what the call returns)
RECURSIVE SearchCalls(_, _, _, _)
SearchCalls(m, actions, k, now) ==
  IF k > Len(actions) \/ IsNullAction(actions[k]) THEN <<>>
  ELSE LET payload == IF Has(actions[k], "payload") THEN actions[k].payload
                      ELSE NoFields
           searches == Get(actions[k], "type") = "search_video"
                       /\ Has(payload, "query") /\ payload.query # ""
       IN (IF searches
           THEN <<[given |-> m, query |-> payload.query,
                   after |-> searchVideoSegment(m, payload.query, now)]>>
           ELSE <<>>)
          \o SearchCalls(ApplyAction(m, actions[k], now), actions, k + 1, now)

\* takes the patch as the whole caption list
MergeCaptionsMutant(captions, newCaptions) ==
  IF Len(newCaptions) = 0 THEN captions ELSE newCaptions
\* updatedManifest.captions after the captions patch
MergeCaptions(captions, newCaptions) ==
  IF Len(newCaptions) = 0 THEN captions
  ELSE IF Len(newCaptions) < Len(captions)
       THEN [i \in 1..Len(captions) |->
               IF i <= Len(newCaptions) THEN Spread(captions[i], newCaptions[i])
               ELSE captions[i]]
       ELSE newCaptions

\* lays the whole of parsed.manifestChanges over the manifest
ApplyManifestChangesMutant(m, changes) == Spread(m, changes)
\* the merge of parsed.manifestChanges
ApplyManifestChanges(m, changes) ==
  LET m1 == IF Has(changes, "theme") THEN Spread(m, [theme |-> changes.theme]) ELSE m
      m2 == IF Has(changes, "captions")
            THEN Spread(m1, [captions |-> MergeCaptions(m1.captions, changes.captions)])
            ELSE m1
      m3 == IF Has(changes, "clips") THEN Spread(m2, [clips |-> changes.clips]) ELSE m2
      m4 == IF Has(changes, "script") /\ changes.script # ""
            THEN Spread(m3, [script |-> changes.script]) ELSE m3
  IN m4

ParseFailureMessage ==
  "I understood your request but had trouble processing it. Could you try rephrasing?"
ErrorMessage ==
  "I encountered an error processing your request. Please try again."
DefaultMessage == "I've made the changes you requested!"

DemoModeMessage(userMessage) ==
  "I didn't understand \"" \o userMessage \o
  "\". Try: \"make it luxurious\", \"add energy\", \"make text red\", \"make text bigger\", \"speed it up\". (Demo mode - add GOOGLE_GENAI_API_KEY for full AI capabilities)"

\* takes the version from the manifest the actions produced
StampMutant(m, changed, now) ==
  Spread(changed, [version |-> BumpVersion(changed), updatedAt |-> now])
\* updatedManifest.version = (currentManifest.version || 1) + 1, and updatedAt
Stamp(m, changed, now) ==
  Spread(changed, [version |-> BumpVersion(m), updatedAt |-> now])

\* the body of the try block: threw, or the response it returns
TryBlock(m, llm, now) ==
  LET ladder == TryModels(llm.statuses, 1)
      parsed == extractJSON(llm.text)
  IN IF ~ladder.got THEN [threw |-> TRUE]
     ELSE IF parsed = Null
     THEN [threw |-> FALSE, value |-> Response(m, <<>>, ParseFailureMessage)]
     ELSE LET obj == parsed.value
              loop == IF Has(obj, "actions") THEN ApplyActions(m, obj.actions, 1, now)
                      ELSE [threw |-> FALSE, manifest |-> m]
              changed == IF Has(obj, "manifestChanges")
                         THEN ApplyManifestChanges(loop.manifest, obj.manifestChanges)
                         ELSE loop.manifest
          IN IF loop.threw THEN [threw |-> TRUE]
             ELSE [threw |-> FALSE,
                   value |-> Response(
                     Stamp(m, changed, now),
                     IF Has(obj, "actions") THEN obj.actions ELSE <<>>,
                     IF Has(obj, "message") /\ obj.message # "" THEN obj.message
                     ELSE DefaultMessage)]

\* lets the error through
CatchMutant(m, attempt) ==
  IF attempt.threw THEN [raised |-> TRUE]
  ELSE [raised |-> FALSE, value |-> attempt.value]
\* the catch clause
Catch(m, attempt) ==
  IF attempt.threw THEN [raised |-> FALSE, value |-> Response(m, <<>>, ErrorMessage)]
  ELSE [raised |-> FALSE, value |-> attempt.value]

\* bumps the version when it did not understand
DemoModeResponseMutant(userMessage, m) ==
  Response(Spread(m, [version |-> BumpVersion(m)]), <<>>, DemoModeMessage(userMessage))
\* the response when no rule matched and there is no API key
DemoModeResponse(userMessage, m) == Response(m, <<>>, DemoModeMessage(userMessage))

\* the outcome of a call: raised, or the DirectorResponse it returns
processDirectorCommand(userMessage, m, ai, llm, now) ==
  LET lowerMessage == lowerMessageOf[userMessage]
      rule == RuleOf[userMessage]
  IN IF rule # "none"
     THEN [raised |-> FALSE, value |-> KeywordResponse(rule, lowerMessage, m, now)]
     ELSE IF ~ai
     THEN [raised |-> FALSE, value |-> DemoModeResponse(userMessage, m)]
     ELSE Catch(m, TryBlock(m, llm, now))

\* the searchVideoSegment calls one command makes
SearchesOf(userMessage, m, ai, llm, now) ==
  IF RuleOf[userMessage] # "none" \/ ~ai \/ ~TryModels(llm.statuses, 1).got
     \/ extractJSON(llm.text) = Null
  THEN <<>>
  ELSE IF Has(extractJSON(llm.text).value, "actions")
  THEN SearchCalls(m, extractJSON(llm.text).value.actions, 1, now)
  ELSE <<>>

\* asks the models whether or not a keyword rule matched
LLMCallsMutant(userMessage, ai, llm) ==
  IF ~ai THEN <<>> ELSE CallTrace(llm.statuses, 1)
\* the generateContent calls one command makes: none when a keyword rule
\* answers it or no API key is configured
LLMCalls(userMessage, ai, llm) ==
  IF RuleOf[userMessage] # "none" \/ ~ai THEN <<>> ELSE CallTrace(llm.statuses, 1)

-----------------------------------------------------------------------------
(* The inputs of the model *)

\* new Date().toISOString() at the time of a call
Times == {"2025-06-01T10:00:00.000Z", "2025-06-01T10:00:01.000Z"}

CaptionTexts == <<"A", "B", "C", "D">>
CaptionFrames == 60

\* a caption as script generation makes it; the caption at index 1 (the
\* second) carries per-caption overrides
InitCaption(i, style) ==
  LET plain == [startFrame |-> (i - 1) * CaptionFrames, endFrame |-> i * CaptionFrames,
                text |-> CaptionTexts[i], style |-> style, position |-> "center"]
  IN IF i = 2
     THEN Spread(plain, [color |-> "#0088ff", fontSize |-> "72px",
                         fontWeight |-> 700, fontFamily |-> "Arial"])
     ELSE plain

\* the clips generateClipsFromImages lays out over the timeline
InitClip(i, n, durationInFrames) ==
  [startFrame |-> (i - 1) * FloorDiv(durationInFrames, n),
   duration |-> FloorDiv(durationInFrames, n),
   type |-> "image", url |-> "https://cdn.example.com/" \o CaptionTexts[i] \o ".jpg",
   sourceStartTime |-> 0]

\* the projects the model starts from: theme (or none), timeline length,
\* numbers of clips and captions, and whether the product has a source video
Settings ==
  { [theme |-> "cyber", durationInFrames |-> 300, numClips |-> MaxClips,
     numCaptions |-> MaxCaptions, video |-> FALSE],
    [theme |-> "none", durationInFrames |-> 300, numClips |-> 0,
     numCaptions |-> 0, video |-> TRUE],
    [theme |-> "minimal", durationInFrames |-> 100, numClips |-> MaxClips,
     numCaptions |-> 1, video |-> FALSE],
    [theme |-> "luxe", durationInFrames |-> 300, numClips |-> 1,
     numCaptions |-> MaxCaptions, video |-> TRUE] }

InitProduct(video) ==
  LET base == [title |-> "Premium Wireless Earbuds Pro", price |-> "$149.99",
               image |-> "https://cdn.example.com/product.jpg",
               url |-> "https://example-store.myshopify.com/products/earbuds"]
  IN IF video THEN Spread(base, [videoUrl |-> "https://cdn.example.com/product.mp4"])
     ELSE base

\* volumes are kept in hundredths (0.3 is 30)
InitManifest(setting) ==
  LET themed == setting.theme # "none"
      numClips == setting.numClips
      numCaptions == setting.numCaptions
      style == IF themed THEN THEME_PRESETS[setting.theme].textAnimation ELSE "impact"
      clips == [i \in 1..numClips |->
                  IF themed
                  THEN Spread(InitClip(i, numClips, setting.durationInFrames),
                              [transition |-> THEME_PRESETS[setting.theme].transition])
                  ELSE InitClip(i, numClips, setting.durationInFrames)]
      base == [id |-> "demo-001", version |-> 1,
               script |-> "Check out these INSANE wireless earbuds!",
               captions |-> [i \in 1..numCaptions |-> InitCaption(i, style)],
               clips |-> clips,
               product |-> InitProduct(setting.video),
               musicVolume |-> 30, voiceVolume |-> 100,
               fps |-> 30, durationInFrames |-> setting.durationInFrames,
               width |-> 1920, height |-> 1080,
               createdAt |-> "2025-06-01T09:00:00.000Z"]
  IN IF themed THEN Spread(base, [theme |-> THEME_PRESETS[setting.theme]]) ELSE base

\* theme ids handed to applyTheme and switchTheme; "retro" is not in the catalog
ThemeArgs == ThemeIds \cup {"retro"}

\* target clip durations handed to adjustTiming
TimingArgs == {-5, 30, 90, 150}

NewTexts == {"SAY GOODBYE TO BORING", "NEW\nLINE"}

NoMatch == [kind |-> "nomatch"]
Invalid == [kind |-> "invalid"]
Object(value) == [kind |-> "object", value |-> value]

ThemeAction(themeId) ==
  Action("change_theme", [themeId |-> themeId], "Applying theme")
TimingAction(clipDuration) ==
  Action("adjust_timing", [clipDuration |-> clipDuration], "Change pacing")
TextAction(captionIndex, newText) ==
  Action("update_text", [captionIndex |-> captionIndex, newText |-> newText],
         "User requested text change")
SearchAction(query) ==
  Action("search_video", [query |-> query], "Find the moment")

\* the JSON objects the model may answer with
LLMObjects ==
  { [actions |-> <<ThemeAction("luxe")>>, message |-> "Applied the Luxe theme!"],
    [actions |-> <<ThemeAction("minimal"), TimingAction(45),
                   TextAction(0, "SAY GOODBYE TO BORING")>>,
     message |-> "Restyled, retimed and rewritten."],
    [actions |-> <<TextAction(7, "TOO FAR"), ThemeAction("retro"), TimingAction(0),
                   Action("change_music", [genre |-> "lofi"], "Softer music")>>],
    [actions |-> <<ThemeAction("luxe"), TimingAction(-5)>>, message |-> "Luxe it is."],
    [actions |-> <<SearchAction("unboxing")>>, message |-> "Found it."],
    [actions |-> <<ThemeAction("luxe"), [isNull |-> TRUE]>>, message |-> "Done"],
    [message |-> "Made the first caption red.",
     manifestChanges |-> [captions |-> <<[color |-> "#ff0000", text |-> "RED HOT"]>>]],
    [actions |-> <<>>, message |-> "",
     manifestChanges |-> [theme |-> THEME_PRESETS.luxe, script |-> "New script",
                          fps |-> 60, durationInFrames |-> 900,
                          id |-> "manifest_other"]] }

\* the response texts: prose only; a fenced block that is not JSON; the
\* JSON value null; an object in a fenced block; an object among prose after
\* a fenced block that is not JSON
LLMTexts ==
  { [block |-> NoMatch, brace |-> NoMatch],
    [block |-> Invalid, brace |-> Invalid],
    [block |-> Null, brace |-> NoMatch] }
  \cup { [block |-> Object(o), brace |-> Object(o)] : o \in LLMObjects }
  \cup { [block |-> Invalid, brace |-> Object(o)] :
           o \in {x \in LLMObjects : ~Has(x, "actions")} }

\* what the three models do, one after the other
LLMStatuses ==
  { <<"ok", "ok", "ok">>, <<"503", "429", "ok">>,
    <<"429", "503", "429">>, <<"500", "ok", "ok">>, <<"429", "none", "ok">> }

NoText == [block |-> NoMatch, brace |-> NoMatch]

\* no LLM call is made
NoLLM == [statuses |-> <<>>, text |-> NoText]

\* the LLM service while a command that a keyword rule answers is processed
StandbyRuns ==
  { [statuses |-> <<"ok", "ok", "ok">>,
     text |-> [block |-> NoMatch,
               brace |-> Object([actions |-> <<ThemeAction("minimal"), TimingAction(45)>>,
                                 message |-> "Restyled and retimed."])]] }

\* the LLM's behaviour during one command: the text is read only when some
\* model answered
LLMRuns ==
  { [statuses |-> st, text |-> tx] :
      st \in {x \in LLMStatuses : TryModels(x, 1).got}, tx \in LLMTexts }
  \cup { [statuses |-> st, text |-> NoText] :
      st \in {x \in LLMStatuses : ~TryModels(x, 1).got} }

-----------------------------------------------------------------------------
(* The state machine: a caller that holds the current manifest and calls  *)
(* one operation at a time on it.  last records the call that has          *)
(* returned: its arguments, the manifest it was given and what it          *)
(* returned.  The caller then adopts the returned manifest or drops it.    *)

Idle == [op |-> "none"]

Init ==
  /\ \E setting \in Settings : manifest = InitManifest(setting)
  /\ aiConfigured \in BOOLEAN
  /\ last = Idle

CanCall == last = Idle /\ manifest.version < MaxVersion

QuickThemeChange(themeId, now) ==
  /\ CanCall
  /\ last' = [op |-> "applyTheme", input |-> manifest, themeId |-> themeId,
              output |-> quickThemeChange(manifest, themeId, now),
              after |-> manifest]
  /\ UNCHANGED <<manifest, aiConfigured>>

SwitchTheme(themeId, now) ==
  /\ CanCall
  /\ last' = [op |-> "switchTheme", input |-> manifest, themeId |-> themeId,
              output |-> switchTheme(manifest, themeId, now),
              after |-> manifest]
  /\ UNCHANGED <<manifest, aiConfigured>>

AdjustTiming(clipDuration, now) ==
  /\ CanCall
  /\ last' = [op |-> "adjustTiming", input |-> manifest,
              clipDuration |-> clipDuration,
              output |-> adjustTiming(manifest, clipDuration, now),
              after |-> manifest]
  /\ UNCHANGED <<manifest, aiConfigured>>

UpdateCaption(captionIndex, newText, now) ==
  /\ CanCall
  /\ last' = [op |-> "updateCaption", input |-> manifest,
              captionIndex |-> captionIndex, newText |-> newText,
              output |-> updateCaption(manifest, captionIndex, newText, now),
              after |-> manifest]
  /\ UNCHANGED <<manifest, aiConfigured>>

\* the commands no keyword rule matches
UnmatchedCommands == {c \in Commands : RuleOf[c] = "none"}

\* the call gets as far as the try block
ReachesLLM(userMessage) == userMessage \in UnmatchedCommands /\ aiConfigured

\* a command that the keyword tier answers, or that finds no LLM configured
KeywordCommand(userMessage, llm, now) ==
  /\ CanCall
  /\ ~ReachesLLM(userMessage)
  /\ llm \in (IF aiConfigured THEN StandbyRuns ELSE {NoLLM})
  /\ last' = [op |-> "command", input |-> manifest, userMessage |-> userMessage,
              ai |-> aiConfigured, llm |-> llm,
              called |-> LLMCalls(userMessage, aiConfigured, llm),
              searches |-> SearchesOf(userMessage, manifest, aiConfigured, llm, now),
              outcome |-> processDirectorCommand(userMessage, manifest,
                                                 aiConfigured, llm, now),
              after |-> manifest]
  /\ UNCHANGED <<manifest, aiConfigured>>

\* a command that reaches the LLM tier, with what the LLM does
LLMCommand(userMessage, llm, now) ==
  /\ CanCall
  /\ ReachesLLM(userMessage)
  /\ last' = [op |-> "command", input |-> manifest, userMessage |-> userMessage,
              ai |-> aiConfigured, llm |-> llm,
              called |-> LLMCalls(userMessage, aiConfigured, llm),
              searches |-> SearchesOf(userMessage, manifest, aiConfigured, llm, now),
              outcome |-> processDirectorCommand(userMessage, manifest,
                                                 aiConfigured, llm, now),
              after |-> manifest]
  /\ UNCHANGED <<manifest, aiConfigured>>

\* the manifest a call returned (the manifest it was given when it raised)
Returned(call) ==
  IF call.op = "command"
  THEN IF call.outcome.raised THEN call.input ELSE call.outcome.value.manifest
  ELSE call.output

\* the caller takes the returned manifest as the current one
Adopt ==
  /\ last # Idle
  /\ manifest' = Returned(last)
  /\ last' = Idle
  /\ UNCHANGED aiConfigured

\* the caller drops the returned manifest
Discard ==
  /\ last # Idle
  /\ last' = Idle
  /\ UNCHANGED <<manifest, aiConfigured>>

Next ==
  \/ \E themeId \in ThemeArgs, now \in Times : QuickThemeChange(themeId, now)
  \/ \E themeId \in ThemeArgs, now \in Times : SwitchTheme(themeId, now)
  \/ \E clipDuration \in TimingArgs, now \in Times : AdjustTiming(clipDuration, now)
  \/ \E captionIndex \in -1..MaxCaptions, newText \in NewTexts, now \in Times :
       UpdateCaption(captionIndex, newText, now)
  \/ \E userMessage \in Commands, llm \in StandbyRuns \cup {NoLLM}, now \in Times :
       KeywordCommand(userMessage, llm, now)
  \/ \E userMessage \in UnmatchedCommands, llm \in LLMRuns, now \in Times :
       LLMCommand(userMessage, llm, now)
  \/ Adopt
  \/ Discard

Spec == Init /\ [][Next]_vars

\* timeline lengths, down to one shorter than the number of clips
TimelineLengths == {2, 7, 300}

\* adjustTiming alone, on projects of every clip count over each timeline
TimingInit ==
  /\ \E durationInFrames \in TimelineLengths, numClips \in 1..MaxClips :
       manifest = InitManifest([theme |-> "cyber",
                                durationInFrames |-> durationInFrames,
                                numClips |-> numClips, numCaptions |-> 0,
                                video |-> FALSE])
  /\ aiConfigured = FALSE
  /\ last = Idle

TimingNext ==
  \/ \E clipDuration \in TimingArgs, now \in Times : AdjustTiming(clipDuration, now)
  \/ Adopt
  \/ Discard

TimingSpec == TimingInit /\ [][TimingNext]_vars

-----------------------------------------------------------------------------
(* Timeline renderer: what the composition shows at one frame *)

\* remotion's random(seed): a number in [0, 1) that its seed fixes, kept in
\* hundredths; the seed is a label and a number
random(label, n) == (37 * n + 11 * Len(label)) % 100

\* <Sequence from durationInFrames>: mounted while the frame is inside
Mounted(from, durationInFrames, frame) ==
  from <= frame /\ frame < from + durationInFrames

\* <<durationInFrames, text.length, frame>> at which the double-precision
\* value of (frame / (durationInFrames * 0.6)) * text.length falls just
\* below the integer that is its exact value (14.999999999999998 for 15)
RoundedBelow == {<<14, 18, 7>>}

\* reveals the text over the whole duration of the caption
charsToShowMutant(frame, durationInFrames, length) ==
  IF length = 0 THEN 0
  ELSE IF frame >= durationInFrames THEN length
  ELSE FloorDiv(frame * length, durationInFrames)
\* Math.floor(interpolate(frame, [0, durationInFrames * 0.6], [0, text.length],
\* {extrapolateRight: "clamp"})); 0.6 is 6 / 10
charsToShow(frame, durationInFrames, length) ==
  IF length = 0 THEN 0
  ELSE IF 10 * frame >= 6 * durationInFrames THEN length
  ELSE FloorDiv(10 * frame * length, 6 * durationInFrames)
       - (IF <<durationInFrames, length, frame>> \in RoundedBelow THEN 1 ELSE 0)

\* getGlitchStyle: the horizontal offset, in hundredths of a pixel
glitchOffset(frame) ==
  IF random("glitch", frame) > 90 THEN random("offset", frame) * 10 - 500 ELSE 0

\* the color, size, weight and family each caption style gives
StyleProperties(style, theme) ==
  CASE style = "glitch" ->
         [color |-> theme.accentColor, fontSize |-> "clamp(40px, 7vw, 64px)",
          fontWeight |-> 800, fontFamily |-> theme.fontFamily \o ", sans-serif"]
    [] style = "minimal" ->
         [color |-> IF theme.id = "minimal" THEN "#333333" ELSE "#ffffff",
          fontSize |-> "clamp(32px, 5vw, 48px)",
          fontWeight |-> 400, fontFamily |-> theme.fontFamily \o ", sans-serif"]
    [] style = "typewriter" ->
         [color |-> IF theme.id = "minimal" THEN "#333333" ELSE theme.primaryColor,
          fontSize |-> "clamp(36px, 6vw, 56px)",
          fontWeight |-> 500, fontFamily |-> "\"SF Mono\", \"Fira Code\", monospace"]
    [] OTHER ->
         [color |-> theme.primaryColor, fontSize |-> "clamp(48px, 8vw, 72px)",
          fontWeight |-> 900, fontFamily |-> theme.fontFamily \o ", sans-serif"]

\* override || fallback for a string-valued override
OrElse(obj, field, fallback) ==
  IF Has(obj, field) /\ obj[field] # "" THEN obj[field] ELSE fallback

\* lets the color override stand in for the size as well
DynamicTextMutant(caption, theme, frame) ==
  LET durationInFrames == caption.endFrame - caption.startFrame
      styleProps == StyleProperties(caption.style, theme)
  IN [displayText |->
        IF caption.style = "typewriter"
        THEN SubSeq(caption.text, 1,
                    charsToShow(frame, durationInFrames, Len(caption.text)))
        ELSE caption.text,
      typewriter |-> caption.style = "typewriter",
      translateX |-> IF caption.style = "glitch" THEN glitchOffset(frame) ELSE 0,
      color |-> OrElse(caption, "color", styleProps.color),
      fontSize |-> OrElse(caption, "color", styleProps.fontSize),
      fontWeight |-> IF Has(caption, "fontWeight") /\ caption.fontWeight # 0
                     THEN caption.fontWeight ELSE styleProps.fontWeight,
      fontFamily |-> IF Has(caption, "fontFamily") /\ caption.fontFamily # ""
                     THEN caption.fontFamily \o ", sans-serif"
                     ELSE styleProps.fontFamily]
\* the text element of a caption at a frame counted from the caption's start
DynamicText(caption, theme, frame) ==
  LET durationInFrames == caption.endFrame - caption.startFrame
      styleProps == StyleProperties(caption.style, theme)
  IN [displayText |->
        IF caption.style = "typewriter"
        THEN SubSeq(caption.text, 1,
                    charsToShow(frame, durationInFrames, Len(caption.text)))
        ELSE caption.text,
      typewriter |-> caption.style = "typewriter",
      translateX |-> IF caption.style = "glitch" THEN glitchOffset(frame) ELSE 0,
      color |-> OrElse(caption, "color", styleProps.color),
      fontSize |-> OrElse(caption, "fontSize", styleProps.fontSize),
      fontWeight |-> IF Has(caption, "fontWeight") /\ caption.fontWeight # 0
                     THEN caption.fontWeight ELSE styleProps.fontWeight,
      fontFamily |-> IF Has(caption, "fontFamily") /\ caption.fontFamily # ""
                     THEN caption.fontFamily \o ", sans-serif"
                     ELSE styleProps.fontFamily]

\* TransitionEffect: the glitch displacement during the first tenth of the
\* clip, seeded by the progress through the clip
TransitionEffect(type, frame, duration) ==
  IF type = "glitch" /\ 10 * frame < duration
  THEN random("glitch", FloorDiv(1000 * frame, duration)) * 10
  ELSE 0

ThemedBackground == [shows |-> "background", translateX |-> 0]

\* ImageClip and VideoClip of the themed composition; hasError is the
\* component's state
ImageClip(clip, theme, frame, hasError) ==
  IF ~Has(clip, "url") \/ clip.url = "" \/ hasError THEN ThemedBackground
  ELSE [shows |-> clip.url,
        translateX |-> TransitionEffect(OrElse(clip, "transition", theme.transition),
                                        frame, clip.duration)]

\* ImageClip of the composition without themes
PlainImageClip(clip, frame) == [shows |-> Get(clip, "url"), translateX |-> 0]

GlitchPeriod == 30
ProductCardFrames == 90

\* the price of the product card: its offset comes from Math.random()
ProductCard(product, frame, mathRandom) ==
  [title |-> product.title, price |-> product.price,
   glitchOffset |-> IF frame % GlitchPeriod < 2 THEN mathRandom * 4 - 200 ELSE 0]

\* the price of the themed product card: its offset is seeded by the frame
ThemedProductCard(product, theme, frame) ==
  [title |-> product.title, price |-> product.price,
   glitchOffset |-> IF theme.id = "cyber" /\ frame % GlitchPeriod < 2
                    THEN random("price-glitch", frame) * 4 - 200 ELSE 0]

\* the two compositions of the repository: with themes, and without
Compositions == {"themed", "plain"}

Max(a, b) == IF a >= b THEN a ELSE b

MountedClips(m, frame) ==
  {i \in 1..Len(m.clips) :
     Mounted(m.clips[i].startFrame, m.clips[i].duration, frame)}

MountedCaptions(m, frame) ==
  {i \in 1..Len(m.captions) :
     Mounted(m.captions[i].startFrame,
             m.captions[i].endFrame - m.captions[i].startFrame, frame)}

\* !clip.url || clip.url.includes("placeholder")
NoValidUrl(clip) ==
  ~Has(clip, "url") \/ clip.url = "" \/ Includes(clip.url, "placeholder")

\* the clip made of the product image, shown when the project has no clips
ProductImageClip(m) ==
  [startFrame |-> 0, duration |-> m.durationInFrames, type |-> "image",
   url |-> m.product.image, sourceStartTime |-> 0]

\* the media components mounted at the frame that keep a hasError state: the
\* index of the clip, 0 for the product image clip
MediaMounted(m, frame) ==
  IF Len(m.clips) > 0
  THEN {i \in MountedClips(m, frame) : ~NoValidUrl(m.clips[i])}
  ELSE {i \in {0} : ~NoValidUrl(ProductImageClip(m))}

\* the themed composition at a frame, hasError being the set of media
\* components whose hasError state is true
MyComposition(m, frame, hasError) ==
  LET activeTheme == IF Has(m, "theme") THEN m.theme ELSE THEME_PRESETS.cyber
      cardFrom == Max(0, m.durationInFrames - ProductCardFrames)
  IN [clips |->
        IF Len(m.clips) > 0
        THEN [i \in MountedClips(m, frame) |->
                IF NoValidUrl(m.clips[i]) THEN ThemedBackground
                ELSE ImageClip(m.clips[i], activeTheme,
                               frame - m.clips[i].startFrame, i \in hasError)]
        ELSE [i \in {0} |->
                IF NoValidUrl(ProductImageClip(m)) THEN ThemedBackground
                ELSE ImageClip(ProductImageClip(m), activeTheme, frame, 0 \in hasError)],
      captions |->
        [i \in MountedCaptions(m, frame) |->
           DynamicText(m.captions[i], activeTheme, frame - m.captions[i].startFrame)],
      card |->
        IF Mounted(cardFrom, ProductCardFrames, frame)
        THEN <<ThemedProductCard(m.product, activeTheme, frame - cardFrom)>>
        ELSE <<>>]

\* the composition without themes: captions get text, style and duration only
PlainComposition(m, frame, mathRandom) ==
  LET cardFrom == Max(0, m.durationInFrames - ProductCardFrames)
  IN [clips |->
        IF Len(m.clips) > 0
        THEN [i \in MountedClips(m, frame) |->
                PlainImageClip(m.clips[i], frame - m.clips[i].startFrame)]
        ELSE [i \in {0} |-> PlainImageClip(ProductImageClip(m), frame)],
      captions |->
        [i \in MountedCaptions(m, frame) |->
           DynamicText([k \in {"startFrame", "endFrame", "text", "style"} |->
                          m.captions[i][k]],
                       THEME_PRESETS.cyber, frame - m.captions[i].startFrame)],
      card |->
        IF Mounted(cardFrom, ProductCardFrames, frame)
        THEN <<ProductCard(m.product, frame - cardFrom, mathRandom)>>
        ELSE <<>>]

Composition(which, m, frame, hasError, mathRandom) ==
  IF which = "themed" THEN MyComposition(m, frame, hasError)
  ELSE PlainComposition(m, frame, mathRandom)

\* the length of the timeline of the projects that are rendered
PreviewFrames == 24

\* two captions: 14 frames of an 18-character text with a font family of its
\* own, then 10 frames of a 5-character text with a color, a size and a
\* weight of its own
RenderCaptions(style) ==
  << [startFrame |-> 0, endFrame |-> 14, text |-> "SAY GOODBYE TO BAD",
      style |-> style, position |-> "center", fontFamily |-> "Georgia"],
     [startFrame |-> 14, endFrame |-> 24, text |-> "SOUND", style |-> style,
      position |-> "bottom", color |-> "#ff0000", fontWeight |-> 700,
      fontSize |-> "72px"] >>

RenderManifest(theme, numClips) ==
  Spread(InitManifest([theme |-> theme, durationInFrames |-> PreviewFrames,
                       numClips |-> numClips, numCaptions |-> 0, video |-> FALSE]),
         [captions |-> RenderCaptions(IF theme = "none" THEN "impact"
                                      ELSE THEME_PRESETS[theme].textAnimation)])

RenderManifests ==
  {RenderManifest(theme, 2) : theme \in ThemeIds \cup {"none"}}
    \cup {RenderManifest("luxe", 0)}

\* what Math.random() returns, in hundredths
MathRandoms == {25, 75}

\* the player has mounted a composition and has rendered no frame yet
RenderInit ==
  /\ manifest \in RenderManifests
  /\ aiConfigured = FALSE
  /\ last \in {[op |-> "mounted", composition |-> c, hasError |-> {}] :
                 c \in Compositions}

\* the composition is evaluated at a frame; a component that is unmounted
\* loses its state; prev keeps the evaluation before this one
RenderFrame(frame, mathRandom) ==
  LET hasError == last.hasError \cap MediaMounted(manifest, frame)
  IN /\ last' = [op |-> "render", composition |-> last.composition,
                 hasError |-> hasError, frame |-> frame,
                 scene |-> Composition(last.composition, manifest, frame,
                                       hasError, mathRandom),
                 prev |-> IF last.op = "render"
                          THEN <<[frame |-> last.frame, scene |-> last.scene]>>
                          ELSE <<>>]
     /\ UNCHANGED <<manifest, aiConfigured>>

\* onError of a mounted image: setHasError(true), and the composition is
\* evaluated again at the same frame
MediaError(i) ==
  /\ last.op = "render"
  /\ last.composition = "themed"
  /\ i \in MediaMounted(manifest, last.frame) \ last.hasError
  /\ last' = [last EXCEPT
                !.hasError = @ \cup {i},
                !.scene = MyComposition(manifest, last.frame, last.hasError \cup {i}),
                !.prev = <<[frame |-> last.frame, scene |-> last.scene]>>]
  /\ UNCHANGED <<manifest, aiConfigured>>

RenderNext ==
  \/ \E frame \in 0..(PreviewFrames - 1), mathRandom \in MathRandoms :
       RenderFrame(frame, mathRandom)
  \/ \E i \in 0..MaxClips : MediaError(i)

RenderSpec == RenderInit /\ [][RenderNext]_vars

-----------------------------------------------------------------------------
(* Scraping the product page and generating the first manifest *)

FALLBACK_PRODUCT ==
  [title |-> "Product", price |-> "$0.00",
   image |-> "https://via.placeholder.com/800x800?text=Product",
   description |-> "Product description not available", images |-> <<>>]

StartsWith(str, prefix) ==
  Len(str) >= Len(prefix) /\ SubSeq(str, 1, Len(prefix)) = prefix

SchemeOf(url) ==
  IF StartsWith(url, "https://") THEN "https://"
  ELSE IF StartsWith(url, "http://") THEN "http://"
  ELSE ""

\* new URL(url) raises a TypeError for a string that has no scheme and host
URLParses(url) ==
  /\ SchemeOf(url) # ""
  /\ Len(url) > Len(SchemeOf(url))
  /\ SubSeq(url, Len(SchemeOf(url)) + 1, Len(SchemeOf(url)) + 1) # "/"

RECURSIVE HostEnd(_, _)
HostEnd(url, i) ==
  IF i > Len(url) \/ SubSeq(url, i, i) = "/" THEN i - 1 ELSE HostEnd(url, i + 1)

\* new URL(url).hostname of a string that parses
hostname(url) ==
  SubSeq(url, Len(SchemeOf(url)) + 1, HostEnd(url, Len(SchemeOf(url)) + 1))

\* what the network gives: the shop's product JSON endpoint answers with a
\* product, with none (or a non-ok status), or the fetch fails; the page is
\* fetched with product data in it, with none, or the fetch fails
NetOutcomes == [shopify : {"product", "empty", "error"},
                page : {"product", "bare", "error"}]

ShopifyProduct ==
  [title |-> "Gold Diamond Mug", price |-> "$24.00",
   image |-> "https://cdn.shopify.com/mug-1.jpg", description |-> "A mug.",
   images |-> <<"https://cdn.shopify.com/mug-1.jpg", "https://cdn.shopify.com/mug-2.jpg">>]

\* null unless the product JSON endpoint answered with a product; a failed
\* fetch is swallowed
scrapeShopify(url, net) ==
  IF net.shopify = "product" THEN ShopifyProduct ELSE Null

\* the merge of JSON-LD, meta tags and page content over the fallback
PageProduct(page) ==
  IF page = "product"
  THEN [title |-> "RGB Gaming Mouse", price |-> "$59.99",
        image |-> "https://example.com/mouse.jpg",
        description |-> "Fast.", images |-> <<"https://example.com/mouse.jpg">>]
  ELSE Spread(FALLBACK_PRODUCT, [images |-> <<FALLBACK_PRODUCT.image>>])

\* the catch block builds its title from new URL(url).hostname, which raises
\* again for the string that made the try block fail
scrapeProduct(url, net) ==
  IF ~URLParses(url)
  THEN [raised |-> TRUE, value |-> "TypeError: Invalid URL"]
  ELSE IF /\ Includes(hostname(url), "shopify") \/ Includes(url, "/products/")
          /\ scrapeShopify(url, net) # Null
  THEN [raised |-> FALSE, value |-> scrapeShopify(url, net)]
  ELSE IF net.page = "error"
  THEN [raised |-> FALSE,
        value |-> Spread(FALLBACK_PRODUCT,
                         [title |-> "Product from " \o hostname(url)])]
  ELSE [raised |-> FALSE, value |-> PageProduct(net.page)]

suggestTheme(productTitle) ==
  LET title == toLowerCase(productTitle)
  IN IF IncludesAny(title, <<"luxury", "premium", "gold", "diamond">>) THEN "luxe"
     ELSE IF IncludesAny(title, <<"tech", "gaming", "neon", "rgb">>) THEN "cyber"
     ELSE "minimal"

\* how the script model answers when an API key is configured
GeminiOutcomes == {"valid", "garbage", "error"}

MockScript == [script |-> "Check out these INSANE wireless earbuds!",
               captions |-> [i \in 1..MaxCaptions |-> InitCaption(i, "impact")]]

\* the parsed answer when it validates, the mock script in every other case
generateScriptWithGemini(ai, gemini) ==
  IF ai /\ gemini = "valid"
  THEN [script |-> "MEET YOUR NEW FAVORITE",
        captions |-> <<[startFrame |-> 0, endFrame |-> CaptionFrames,
                        text |-> "MEET YOUR NEW FAVORITE", style |-> "glitch",
                        position |-> "center"]>>]
  ELSE MockScript

MaxImageClips == 5

generateClipsFromImages(images, durationInFrames) ==
  IF Len(images) = 0 THEN <<>>
  ELSE LET n == Min(Len(images), MaxImageClips)
           clipDuration == FloorDiv(durationInFrames, n)
       IN [i \in 1..n |-> [startFrame |-> (i - 1) * clipDuration,
                           duration |-> clipDuration, type |-> "image",
                           url |-> images[i], sourceStartTime |-> 0]]

GeneratedFrames == 300

Styles == {"hype", "luxury", "clean"}

\* tts is the voiceover result: an audio URL, or null without a key or on a
\* failed request
generateVideo(productUrl, style, net, ai, gemini, tts, now) ==
  LET scraped == scrapeProduct(productUrl, net)
      product == scraped.value
      written == generateScriptWithGemini(ai, gemini)
      clips == generateClipsFromImages(product.images, GeneratedFrames)
      themeId == IF style = "luxury" THEN "luxe"
                 ELSE IF style = "hype" THEN "cyber"
                 ELSE suggestTheme(product.title)
      theme == THEME_PRESETS[themeId]
      single == <<[startFrame |-> 0, duration |-> GeneratedFrames, type |-> "image",
                   url |-> product.image, sourceStartTime |-> 0]>>
      shown == IF Len(clips) > 0 THEN clips ELSE single
      base == [id |-> "generated", version |-> 1, script |-> written.script,
               fps |-> 30, durationInFrames |-> GeneratedFrames,
               width |-> 1920, height |-> 1080,
               captions |-> [i \in DOMAIN written.captions |->
                               Spread(written.captions[i],
                                      [style |-> theme.textAnimation])],
               clips |-> [i \in DOMAIN shown |->
                            Spread(shown[i], [transition |-> theme.transition])],
               product |-> [title |-> product.title, price |-> product.price,
                            image |-> product.image,
                            description |-> product.description,
                            url |-> productUrl],
               theme |-> theme, musicVolume |-> 30, voiceVolume |-> 100,
               createdAt |-> now]
  IN IF scraped.raised
     THEN [success |-> FALSE, error |-> scraped.value]
     ELSE [success |-> TRUE,
           manifest |-> IF tts = Null THEN base
                        ELSE Spread(base, [audioUrl |-> tts.audioUrl])]

ProductUrls == {"https://acme.myshopify.com/products/mug",
                "https://example.com/item", "example.com/products/mug",
                "not a url"}

TTSResults == {Null, [kind |-> "audio", audioUrl |-> "data:audio/mpeg;base64,AAAA"]}

\* the page before a product URL is submitted has no manifest
GenerateInit ==
  /\ manifest = Null
  /\ aiConfigured \in BOOLEAN
  /\ last = Idle

\* handleGenerate: the URL form is on the page while there is no manifest
GenerateVideo(productUrl, style, net, gemini, tts, now) ==
  /\ manifest = Null
  /\ last = Idle
  /\ last' = [op |-> "generateVideo", productUrl |-> productUrl, style |-> style,
              net |-> net, gemini |-> gemini, tts |-> tts,
              scraped |-> scrapeProduct(productUrl, net),
              response |-> generateVideo(productUrl, style, net, aiConfigured,
                                         gemini, tts, now)]
  /\ UNCHANGED <<manifest, aiConfigured>>

\* the response arrives: the manifest is shown on success, an error otherwise
HandleResult ==
  /\ last # Idle
  /\ manifest' = IF last.response.success /\ Has(last.response, "manifest")
                 THEN last.response.manifest
                 ELSE manifest
  /\ last' = Idle
  /\ UNCHANGED aiConfigured

\* handleBack ("New Video")
HandleBack ==
  /\ manifest # Null
  /\ last = Idle
  /\ manifest' = Null
  /\ UNCHANGED <<aiConfigured, last>>

GenerateNext ==
  \/ \E productUrl \in ProductUrls, style \in Styles, net \in NetOutcomes,
        gemini \in GeminiOutcomes, tts \in TTSResults, now \in Times :
       GenerateVideo(productUrl, style, net, gemini, tts, now)
  \/ HandleResult
  \/ HandleBack

GenerateSpec == GenerateInit /\ [][GenerateNext]_vars

-----------------------------------------------------------------------------
(* The chat panel: requests in flight and the manifests the page adopts *)

\* sendChatMessage for a message without a URL while a manifest is shown
sendChatMessage(message, m, ai, llm, now) ==
  LET outcome == processDirectorCommand(message, m, ai, llm, now)
  IN IF outcome.raised THEN [raised |-> TRUE]
     ELSE [raised |-> FALSE, response |-> outcome.value.message,
           manifest |-> outcome.value.manifest,
           action |-> IF Len(outcome.value.actions) > 0 THEN "edit" ELSE Undefined]

\* the most editing requests the panel has out at a time
MaxInFlight == 2

\* what is typed into the chat box
ChatCommands == {"make it luxurious", "speed up the cuts", "asdfqwerty123"}

\* what the LLM does for a typed command: answers with a manifestChanges
\* patch and no actions, answers with actions, or every model is overloaded
ChatRuns ==
  { [statuses |-> <<"ok", "ok", "ok">>,
     text |-> [block |-> NoMatch,
               brace |-> Object([actions |-> <<>>, message |-> "",
                                 manifestChanges |-> [theme |-> THEME_PRESETS.luxe,
                                                      script |-> "New script"]])]],
    [statuses |-> <<"ok", "ok", "ok">>,
     text |-> [block |-> NoMatch,
               brace |-> Object([actions |-> <<ThemeAction("minimal")>>,
                                 message |-> "Applied the Minimal theme!"])]],
    [statuses |-> <<"429", "503", "429">>, text |-> NoText] }

\* the panel as mounted over a generated manifest: nothing loading, nothing
\* in flight
ChatInit ==
  /\ manifest = InitManifest(CHOOSE s \in Settings : s.theme = "cyber")
  /\ aiConfigured \in BOOLEAN
  /\ last = [op |-> "chat", event |-> "mounted", isLoading |-> FALSE,
             inFlight |-> <<>>]

\* room for one more request, and for the version it will produce
CanSend ==
  /\ Len(last.inFlight) < MaxInFlight
  /\ manifest.version < MaxVersion

\* handleSubmit up to the await: returns early while isLoading
HandleSubmit(message, llm, now) ==
  /\ CanSend
  /\ ~last.isLoading
  /\ llm \in (IF aiConfigured /\ RuleOf[message] = "none" THEN ChatRuns
              ELSE {NoLLM})
  /\ last' = [op |-> "chat", event |-> "submit", isLoading |-> TRUE,
              inFlight |-> Append(last.inFlight,
                [kind |-> "chat", sentFrom |-> manifest,
                 result |-> sendChatMessage(message, manifest, aiConfigured,
                                            llm, now)])]
  /\ UNCHANGED <<manifest, aiConfigured>>

\* handleThemeSwitch up to the await: it does not look at isLoading
HandleThemeSwitch(themeId, now) ==
  /\ CanSend
  /\ last' = [op |-> "chat", event |-> "themeSwitch", isLoading |-> TRUE,
              inFlight |-> Append(last.inFlight,
                [kind |-> "theme", sentFrom |-> manifest,
                 result |-> switchTheme(manifest, themeId, now)])]
  /\ UNCHANGED <<manifest, aiConfigured>>

\* the sequence without its entry k
Without(seq, k) == SubSeq(seq, 1, k - 1) \o SubSeq(seq, k + 1, Len(seq))

\* handleSubmit after the await: onManifestUpdate only for action "edit"
ChatReturns(k) ==
  /\ k \in DOMAIN last.inFlight
  /\ last.inFlight[k].kind = "chat"
  /\ LET request == last.inFlight[k]
         adopts == ~request.result.raised /\ request.result.action = "edit"
     IN /\ manifest' = IF adopts THEN request.result.manifest ELSE manifest
        /\ last' = [op |-> "chat", event |-> "chatReturned", isLoading |-> FALSE,
                    inFlight |-> Without(last.inFlight, k),
                    request |-> request, adopted |-> adopts,
                    replaced |-> manifest]
  /\ UNCHANGED aiConfigured

\* handleThemeSwitch after the await: onManifestUpdate with the result
ThemeReturns(k) ==
  /\ k \in DOMAIN last.inFlight
  /\ last.inFlight[k].kind = "theme"
  /\ manifest' = last.inFlight[k].result
  /\ last' = [op |-> "chat", event |-> "themeReturned", isLoading |-> FALSE,
              inFlight |-> Without(last.inFlight, k),
              request |-> last.inFlight[k], adopted |-> TRUE,
              replaced |-> manifest]
  /\ UNCHANGED aiConfigured

ChatNext ==
  \/ \E message \in ChatCommands, llm \in ChatRuns \cup {NoLLM}, now \in Times :
       HandleSubmit(message, llm, now)
  \/ \E themeId \in ThemeIds, now \in Times : HandleThemeSwitch(themeId, now)
  \/ \E k \in 1..MaxInFlight : ChatReturns(k)
  \/ \E k \in 1..MaxInFlight : ThemeReturns(k)

ChatSpec == ChatInit /\ [][ChatNext]_vars

-----------------------------------------------------------------------------
(* Properties *)

IsCommand == last # Idle /\ last.op = "command"

\* the lowered text of the command of the latest call
LastLower == lowerMessageOf[last.userMessage]

\* manifest.theme?.id
ThemeIdOf(m) == IF Has(m, "theme") THEN m.theme.id ELSE Undefined

\* obj.field is present and is value
Is(obj, field, value) == Has(obj, field) /\ obj[field] = value

\* the fields two objects may differ in are among allowed
SameExcept(a, b, allowed) ==
  /\ DOMAIN a \ allowed = DOMAIN b \ allowed
  /\ \A f \in DOMAIN a \ allowed : a[f] = b[f]

\* two characters are the same letter when case is ignored
SameLetter(a, b) ==
  a = b \/ \E k \in 1..Len(UpperChars) : {a, b} = {UpperChars[k], LowerChars[k]}

\* sub occurs in str in some letter case
ContainsIgnoringCase(str, sub) ==
  \E i \in 1..(Len(str) - Len(sub) + 1) :
    \A j \in 1..Len(sub) :
      SameLetter(SubSeq(str, i + j - 1, i + j - 1), SubSeq(sub, j, j))

\* the commands that contain a luxe trigger keyword in some letter case
LuxeCommands ==
  {c \in Commands :
     \E k \in 1..Len(luxeKeywords) : ContainsIgnoringCase(c, luxeKeywords[k])}

\* C1: a command that contains a luxe trigger keyword, in any letter case,
\* returns a manifest whose theme.id is "luxe" and whose version is the input
\* version plus one, with or without an LLM configured.
C1_LuxeKeyword ==
  (IsCommand /\ last.userMessage \in LuxeCommands) =>
    /\ ~last.outcome.raised
    /\ ThemeIdOf(last.outcome.value.manifest) = "luxe"
    /\ last.outcome.value.manifest.version = last.input.version + 1

\* an upper-case trigger, with an LLM configured, on a project of another theme
C1_Witness ==
  /\ IsCommand
  /\ last.userMessage = "GOLD please"
  /\ last.ai
  /\ ThemeIdOf(last.input) = "cyber"
  /\ ThemeIdOf(last.outcome.value.manifest) = "luxe"

\* C2: with no LLM configured, a command that matches no keyword rule returns
\* the input manifest unchanged in every field, no actions and a non-empty
\* message.
C2_DemoFallback ==
  (IsCommand /\ ~last.ai /\ KeywordRule(LastLower) = "none") =>
    /\ ~last.outcome.raised
    /\ last.outcome.value.manifest = last.input
    /\ last.outcome.value.actions = <<>>
    /\ last.outcome.value.message # ""

C2_Witness ==
  /\ IsCommand
  /\ last.userMessage = "asdfqwerty123"
  /\ ~last.ai
  /\ last.input.version = 2
  /\ last.outcome.value.manifest.version = 2
  /\ Len(last.outcome.value.message) > 0

\* no rule before the color rule matches
NoEarlierRule(lowerMessage) ==
  /\ ~IncludesAny(lowerMessage, luxeKeywords)
  /\ ~IncludesAny(lowerMessage, cyberKeywords)
  /\ ~IncludesAny(lowerMessage, minimalKeywords)
  /\ ~IncludesAny(lowerMessage, fasterKeywords)
  /\ ~IncludesAny(lowerMessage, slowerKeywords)

\* the latest call is a command that names color keyword k together with
\* "text", "caption" or "color" and matches no earlier rule
NamesColor(k) ==
  /\ IsCommand
  /\ Includes(LastLower, colorKeywords[k][1])
  /\ IncludesAny(LastLower, colorTargets)
  /\ NoEarlierRule(LastLower)

\* every caption of the returned manifest has the color hex, nothing else of
\* the captions changed, and the version is the input version plus one
Recolored(hex) ==
  LET in == last.input
      out == last.outcome.value.manifest
  IN /\ ~last.outcome.raised
     /\ Len(out.captions) = Len(in.captions)
     /\ \A i \in 1..Len(in.captions) :
          /\ Is(out.captions[i], "color", hex)
          /\ SameExcept(in.captions[i], out.captions[i], {"color"})
     /\ out.version = in.version + 1

\* C3 as stated: whichever color keyword the command names, every caption
\* gets that keyword's hex value.
C3_AnyNamedColor ==
  \A k \in 1..Len(colorKeywords) : NamesColor(k) => Recolored(colorKeywords[k][2])

\* C3 as amended: every caption gets the hex value of the first keyword, in
\* the order of the color table, that the command contains; the other
\* caption fields are unchanged and the version is the input version plus one.
C3_FirstTableColor ==
  \A k \in 1..Len(colorKeywords) :
    (NamesColor(k) /\ \A j \in 1..(k - 1) : ~Includes(LastLower, colorKeywords[j][1]))
      => Recolored(colorKeywords[k][2])

\* "colored" contains "red": two captions, one of them blue before, turn red
C3_Witness ==
  /\ IsCommand
  /\ last.userMessage = "make the colored text blue"
  /\ Len(last.input.captions) = 2
  /\ Is(last.input.captions[2], "color", "#0088ff")
  /\ Is(last.outcome.value.manifest.captions[1], "color", "#ff0000")
  /\ Is(last.outcome.value.manifest.captions[2], "color", "#ff0000")

\* C4: after adjustTiming(m, d) on a manifest with clips the first clip starts
\* at 0, each clip starts where the one before it ends, and every duration is
\* min(d, floor(durationInFrames / clipCount)); with no clips the manifest is
\* returned unchanged.
C4_UniformTiling ==
  (last # Idle /\ last.op = "adjustTiming") =>
    LET in == last.input
        out == last.output
        n == Len(in.clips)
    IN IF n = 0 THEN out = in
       ELSE /\ Len(out.clips) = n
            /\ out.clips[1].startFrame = 0
            /\ \A i \in 1..(n - 1) :
                 out.clips[i + 1].startFrame =
                   out.clips[i].startFrame + out.clips[i].duration
            /\ \A i \in 1..n :
                 out.clips[i].duration =
                   (IF last.clipDuration <= in.durationInFrames \div n
                    THEN last.clipDuration ELSE in.durationInFrames \div n)

\* three clips over 100 frames asked for 90: capped at 33, starting 0/33/66
C4_Witness ==
  /\ last # Idle /\ last.op = "adjustTiming"
  /\ last.clipDuration = 90
  /\ last.input.durationInFrames = 100
  /\ Len(last.input.clips) = 3
  /\ last.output.clips[1].duration = 33
  /\ last.output.clips[2].startFrame = 33
  /\ last.output.clips[3].startFrame = 66

InRange(call) ==
  call.captionIndex >= 0 /\ call.captionIndex < Len(call.input.captions)

\* the texts of captions, one per line
RECURSIVE LinesOf(_, _)
LinesOf(captions, i) ==
  IF i > Len(captions) THEN ""
  ELSE IF i = Len(captions) THEN captions[i].text
  ELSE captions[i].text \o "\n" \o LinesOf(captions, i + 1)

\* C5: updateCaption(m, i, T) with i in range sets captions[i].text to T,
\* leaves every other caption and every other field of caption i unchanged,
\* and makes script the captions' texts joined with newlines in order.
C5_UpdateCaption ==
  (last # Idle /\ last.op = "updateCaption" /\ InRange(last)) =>
    LET in == last.input
        out == last.output
        k == last.captionIndex + 1
    IN /\ Len(out.captions) = Len(in.captions)
       /\ out.captions[k].text = last.newText
       /\ SameExcept(in.captions[k], out.captions[k], {"text"})
       /\ \A j \in 1..Len(in.captions) : j # k => out.captions[j] = in.captions[j]
       /\ out.script = LinesOf(out.captions, 1)

\* the second of two captions, which carries overrides, gets a new text
C5_Witness ==
  /\ last # Idle /\ last.op = "updateCaption"
  /\ last.captionIndex = 1
  /\ Len(last.input.captions) = 2
  /\ last.output.captions[2].text = last.newText
  /\ Is(last.output.captions[2], "color", "#0088ff")
  /\ last.output.script = "A\n" \o last.newText
  /\ last.output.script # last.input.script

\* C6: updateCaption with an index below 0 or at or after captions.length
\* returns the manifest identical to its input: captions, script and version
\* are unchanged.
C6_OutOfRange ==
  (last # Idle /\ last.op = "updateCaption" /\ ~InRange(last)) =>
    /\ last.output = last.input
    /\ last.output.version = last.input.version

\* the index just past the last of two captions
C6_Witness ==
  /\ last # Idle /\ last.op = "updateCaption"
  /\ Len(last.input.captions) = 2
  /\ last.captionIndex = 2
  /\ last.output.captions = last.input.captions
  /\ last.output.version = last.input.version

IsThemeCall == last # Idle /\ last.op \in {"applyTheme", "switchTheme"}

\* the operation of the latest theme call, applied once more
Reapply(m, now) ==
  IF last.op = "applyTheme" THEN applyTheme(m, last.themeId, now)
  ELSE switchTheme(m, last.themeId, now)

\* C7: applying the same known theme to the result of applying it gives the
\* same theme, clips and captions; the two results differ in version and
\* updatedAt only.
C7_Idempotent ==
  (IsThemeCall /\ last.themeId \in ThemeIds) =>
    \A now \in Times :
      LET once == last.output
          twice == Reapply(once, now)
      IN /\ Has(twice, "theme") /\ twice.theme = once.theme
         /\ twice.clips = once.clips
         /\ twice.captions = once.captions
         /\ SameExcept(once, twice, {"version", "updatedAt"})
         /\ twice.version = once.version + 1

\* a theme other than the project's, on a project with clips and captions
C7_Witness ==
  /\ last # Idle /\ last.op = "applyTheme"
  /\ last.themeId = "luxe"
  /\ ThemeIdOf(last.input) = "cyber"
  /\ Len(last.input.clips) = 3 /\ Len(last.input.captions) = 2
  /\ Is(last.output.clips[1], "transition", "fade")
  /\ last.output.captions[1].style = "minimal"

\* C8: applyTheme with a known id sets theme to the preset, every clip's
\* transition to the preset's transition, every caption's style to the
\* preset's textAnimation, the version and updatedAt, and nothing else: text,
\* timing, position and the per-caption overrides, clip timing and urls and
\* all other manifest fields are as they were.
C8_ThemeFrame ==
  (last # Idle /\ last.op = "applyTheme" /\ last.themeId \in ThemeIds) =>
    LET in == last.input
        out == last.output
        preset == THEME_PRESETS[last.themeId]
    IN /\ Is(out, "theme", preset)
       /\ Len(out.clips) = Len(in.clips)
       /\ \A i \in 1..Len(in.clips) :
            /\ Is(out.clips[i], "transition", preset.transition)
            /\ SameExcept(in.clips[i], out.clips[i], {"transition"})
       /\ Len(out.captions) = Len(in.captions)
       /\ \A i \in 1..Len(in.captions) :
            /\ out.captions[i].style = preset.textAnimation
            /\ SameExcept(in.captions[i], out.captions[i], {"style"})
       /\ SameExcept(in, out, {"theme", "clips", "captions", "version", "updatedAt"})

\* a second edit: the captions were turned red, then the theme is changed
C8_Witness ==
  /\ last # Idle /\ last.op = "applyTheme"
  /\ last.themeId = "minimal"
  /\ last.input.version = 2
  /\ Len(last.input.captions) = 2
  /\ Is(last.input.captions[1], "color", "#ff0000")
  /\ Is(last.input.captions[2], "fontWeight", 700)
  /\ last.input.captions[1].style = "glitch"
  /\ Is(last.output.captions[1], "color", "#ff0000")
  /\ Is(last.output.captions[2], "fontWeight", 700)
  /\ last.output.captions[1].style = "typewriter"

\* the call of an operation that edits: a known theme, a timing change with
\* clips to retime, an index in range, a keyword edit, a parsed LLM answer
Edits(call) ==
  CASE call.op \in {"applyTheme", "switchTheme"} -> call.themeId \in ThemeIds
    [] call.op = "adjustTiming" -> Len(call.input.clips) > 0
    [] call.op = "updateCaption" -> InRange(call)
    [] call.op = "command" ->
         /\ ~call.outcome.raised
         /\ call.outcome.value.message \notin
              {ParseFailureMessage, ErrorMessage, DemoModeMessage(call.userMessage)}
         /\ (KeywordRule(lowerMessageOf[call.userMessage]) \in {"faster", "slower"}
               => Len(call.input.clips) > 0)

\* C9: every operation that edits returns a manifest whose version is the
\* input version plus one, however many actions an LLM answer applies; a call
\* that does not edit returns the input version.
C9_VersionPlusOne ==
  last # Idle =>
    /\ Edits(last) => Returned(last).version = last.input.version + 1
    /\ Returned(last).version \in {last.input.version, last.input.version + 1}
    /\ Returned(last) # last.input => Returned(last).version = last.input.version + 1

\* an LLM answer with three actions that all apply, on a project at version 2
C9_Witness ==
  /\ IsCommand
  /\ last.ai
  /\ last.input.version = 2
  /\ Len(last.outcome.value.actions) = 3
  /\ ThemeIdOf(last.outcome.value.manifest) = "minimal"
  /\ Len(last.input.clips) = 3 /\ Len(last.input.captions) = 2
  /\ last.outcome.value.manifest.clips[1].duration = 45
  /\ last.outcome.value.manifest.captions[1].text = "SAY GOODBYE TO BORING"
  /\ last.outcome.value.manifest.version = 3

\* the LLM call fails: a model fails with a status that is not retried, or
\* every model fails
CallFails(statuses) ==
  \/ \A k \in 1..Len(statuses) : statuses[k] \in {"429", "503"}
  \/ \E k \in 1..Len(statuses) :
       /\ statuses[k] \notin {"ok", "429", "503"}
       /\ \A j \in 1..(k - 1) : statuses[j] \in {"429", "503"}

\* neither the fenced block nor the brace-matched substring is JSON
Unparseable(text) ==
  /\ text.block.kind \in {"nomatch", "invalid"}
  /\ text.brace.kind \in {"nomatch", "invalid"}

\* C10: processDirectorCommand never raises; when the LLM call fails or its
\* text cannot be parsed as JSON it returns the input manifest unchanged, no
\* actions and a non-empty message.
C10_NeverRaises ==
  IsCommand =>
    /\ ~last.outcome.raised
    /\ (last.ai /\ KeywordRule(LastLower) = "none"
          /\ (CallFails(last.llm.statuses) \/ Unparseable(last.llm.text))) =>
         /\ last.outcome.value.manifest = last.input
         /\ last.outcome.value.actions = <<>>
         /\ last.outcome.value.message # ""

\* every candidate model fails with a retryable status
C10_Witness ==
  /\ IsCommand
  /\ last.ai
  /\ last.llm.statuses = <<"429", "503", "429">>
  /\ ~last.outcome.raised
  /\ last.outcome.value.manifest = last.input
  /\ last.outcome.value.message = ErrorMessage

\* the latest call is a command that got an answer from the LLM and parsed
\* it as a JSON object
LLMAnswered ==
  /\ IsCommand
  /\ last.ai
  /\ RuleOf[last.userMessage] = "none"
  /\ TryModels(last.llm.statuses, 1).got
  /\ extractJSON(last.llm.text) # Null

\* the object the LLM answered with
AnswerOf(call) == extractJSON(call.llm.text).value

ActionsOf(call) ==
  IF Has(AnswerOf(call), "actions") THEN AnswerOf(call).actions ELSE <<>>

PayloadOf(action) == IF Has(action, "payload") THEN action.payload ELSE NoFields

\* an action that cannot take effect on m: an unknown theme id, a caption
\* index out of range, a clip duration that is not positive, or a type the
\* Director does not recognize
CannotTakeEffect(m, action) ==
  LET type == Get(action, "type")
      payload == PayloadOf(action)
  IN /\ ~IsNullAction(action)
     /\ CASE type = "change_theme" ->
               ~Has(payload, "themeId") \/ payload.themeId \notin ThemeIds
          [] type = "update_text" ->
               \/ ~Has(payload, "captionIndex")
               \/ payload.captionIndex < 0
               \/ payload.captionIndex >= Len(m.captions)
          [] type = "adjust_timing" ->
               ~Has(payload, "clipDuration") \/ payload.clipDuration <= 0
          [] OTHER -> type # "search_video"

\* C11: a parsed LLM answer in which no action can take effect and which has
\* no manifestChanges returns the manifest unchanged, its version not bumped.
C11_NoEffectNoBump ==
  (/\ LLMAnswered
   /\ ~Has(AnswerOf(last), "manifestChanges")
   /\ Len(ActionsOf(last)) > 0
   /\ \A k \in 1..Len(ActionsOf(last)) :
        CannotTakeEffect(last.input, ActionsOf(last)[k]))
    => /\ ~last.outcome.raised
       /\ last.outcome.value.manifest = last.input
       /\ last.outcome.value.manifest.version = last.input.version

\* a theme change to a known theme followed by an action that fails: its
\* parameters are invalid, or reading it raises an error
ThemeThenFailure(call, themeId) ==
  LET actions == ActionsOf(call)
  IN /\ Len(actions) = 2
     /\ ~IsNullAction(actions[1])
     /\ Get(actions[1], "type") = "change_theme"
     /\ Is(PayloadOf(actions[1]), "themeId", themeId)
     /\ themeId \in ThemeIds
     /\ \/ IsNullAction(actions[2])
        \/ CannotTakeEffect(call.input, actions[2])

\* C12: when an earlier action of an LLM answer applied and a later one
\* fails, the returned manifest still has the effect of the earlier action.
C12_NotRolledBack ==
  \A themeId \in ThemeIds :
    (LLMAnswered /\ ~Has(AnswerOf(last), "manifestChanges")
       /\ ThemeThenFailure(last, themeId))
      => /\ ~last.outcome.raised
         /\ ThemeIdOf(last.outcome.value.manifest) = themeId

IsRender == last.op = "render"

\* C13: two evaluations of the composition with the same manifest at the
\* same frame show the same scene (glitch offsets, visible text, price-card
\* offset), whatever was rendered in between.
C13_Deterministic ==
  (IsRender /\ last.prev # <<>> /\ last.prev[1].frame = last.frame)
    => last.prev[1].scene = last.scene

\* the typewriter captions a scene shows
Typewriters(scene) ==
  {i \in DOMAIN scene.captions : scene.captions[i].typewriter}

VisibleChars(scene, i) == Len(scene.captions[i].displayText)

\* floor(L * f / (0.6 * D)) capped at L, in exact arithmetic
ExactChars(f, D, L) == Min(L, FloorDiv(10 * L * f, 6 * D))

\* C14 as stated: a typewriter caption of D frames and L characters shows
\* floor(L * f / (0.6 * D)) characters, capped at L, at its frame f.
C14_ExactFloor ==
  IsRender =>
    \A i \in Typewriters(last.scene) :
      LET caption == manifest.captions[i]
      IN VisibleChars(last.scene, i) =
           ExactChars(last.frame - caption.startFrame,
                      caption.endFrame - caption.startFrame, Len(caption.text))

\* C14 as amended: the count is floor(L * f / (0.6 * D)) capped at L, or one
\* less at a frame strictly between 0 and 0.6 * D where L * f / (0.6 * D) is
\* a whole number; it is 0 at f = 0, exactly L from f = 0.6 * D on, never
\* more than L, and no smaller at a later frame than at an earlier one.
C14_Typewriter ==
  IsRender =>
    \A i \in Typewriters(last.scene) :
      LET caption == manifest.captions[i]
          f == last.frame - caption.startFrame
          D == caption.endFrame - caption.startFrame
          L == Len(caption.text)
          c == VisibleChars(last.scene, i)
      IN /\ c <= L
         /\ f = 0 => c = 0
         /\ 10 * f >= 6 * D => c = L
         /\ \/ c = ExactChars(f, D, L)
            \/ /\ c = ExactChars(f, D, L) - 1
               /\ 0 < f /\ 10 * f < 6 * D
               /\ (10 * L * f) % (6 * D) = 0
         /\ (/\ last.prev # <<>>
             /\ last.prev[1].frame <= last.frame
             /\ i \in Typewriters(last.prev[1].scene))
              => VisibleChars(last.prev[1].scene, i) <= c

\* 14 frames, 18 characters: frame 7 shows 14 of them after frame 0 showed none
C14_Witness ==
  /\ IsRender
  /\ last.frame = 7
  /\ 1 \in Typewriters(last.scene)
  /\ last.scene.captions[1].displayText = "SAY GOODBYE TO"
  /\ last.prev # <<>>
  /\ last.prev[1].frame = 0
  /\ last.prev[1].scene.captions[1].displayText = ""

\* C15: after applyTheme, adjustTiming, updateCaption, searchVideoSegment or
\* processDirectorCommand returns, the manifest the caller passed is equal in
\* every field to what it was before the call.
C15_InputNotModified ==
  /\ (last # Idle /\ last.op # "switchTheme") => last.after = last.input
  /\ IsCommand => \A k \in DOMAIN last.searches :
                    last.searches[k].after = last.searches[k].given

\* C17: scrapeProduct never throws, whatever the input string and the network
\* do, and generateVideo always completes with success = true and a manifest.
C17_NeverThrows ==
  last.op = "generateVideo"
    => /\ ~last.scraped.raised
       /\ last.response.success
       /\ Has(last.response, "manifest")

CaptionStyles == {"impact", "minimal", "glitch", "typewriter"}

ValidCaption(caption, durationInFrames) ==
  /\ {"startFrame", "endFrame", "text", "style"} \subseteq DOMAIN caption
  /\ caption.startFrame \in 0..durationInFrames
  /\ caption.endFrame \in 0..durationInFrames
  /\ caption.endFrame > caption.startFrame
  /\ caption.style \in CaptionStyles

ValidClip(clip) ==
  {"startFrame", "duration", "type", "url"} \subseteq DOMAIN clip

\* the invariants of the data model
ValidManifest(m) ==
  /\ Has(m, "theme") => \E id \in ThemeIds : m.theme = THEME_PRESETS[id]
  /\ \A i \in DOMAIN m.captions : ValidCaption(m.captions[i], m.durationInFrames)
  /\ \A i \in DOMAIN m.clips : ValidClip(m.clips[i])

\* C16: whatever JSON the LLM returns, the manifest a Director command
\* returns, and the manifest of the project after any sequence of commands,
\* satisfies the invariants of the data model.
C16_ValidAfterLLM ==
  /\ ValidManifest(manifest)
  /\ IsCommand => ValidManifest(Returned(last))

\* the keyword rules in the order the code tests them
RuleOrder == <<"luxe", "cyber", "minimal", "faster", "slower", "color",
               "bigger", "smaller", "bolder", "thinner">>

\* the trigger keywords of a rule (the color rule has a table instead)
TriggerKeywords(rule) ==
  CASE rule = "luxe" -> luxeKeywords
    [] rule = "cyber" -> cyberKeywords
    [] rule = "minimal" -> minimalKeywords
    [] rule = "faster" -> fasterKeywords
    [] rule = "slower" -> slowerKeywords
    [] rule = "bigger" -> biggerKeywords
    [] rule = "smaller" -> smallerKeywords
    [] rule = "bolder" -> bolderKeywords
    [] rule = "thinner" -> thinnerKeywords
    [] rule = "color" -> <<>>

Triggered(rule, lowerMessage) ==
  IF rule = "color" THEN ColorRuleMatches(lowerMessage)
  ELSE IncludesAny(lowerMessage, TriggerKeywords(rule))

\* the positions in RuleOrder of the rules the message triggers
TriggeredRules(lowerMessage) ==
  {k \in 1..Len(RuleOrder) : Triggered(RuleOrder[k], lowerMessage)}

\* for each command, the rules its lower-cased text triggers
TriggeredBy == [c \in Commands |-> TriggeredRules(lowerMessageOf[c])]

\* the first of them in the order, for a command that triggers some rule
FirstTriggered(userMessage) ==
  RuleOrder[CHOOSE k \in TriggeredBy[userMessage] :
              \A j \in TriggeredBy[userMessage] : k <= j]

\* the caption override a styling rule applies
RuleOverride(rule, lowerMessage) ==
  CASE rule = "color" -> [color |-> MatchedColor(lowerMessage)[2]]
    [] rule = "bigger" -> [fontSize |-> BiggerFontSize]
    [] rule = "smaller" -> [fontSize |-> SmallerFontSize]
    [] rule = "bolder" -> [fontWeight |-> BolderWeight]
    [] rule = "thinner" -> [fontWeight |-> ThinnerWeight]

\* the response's action is the rule's operation
IsRuleAction(action, rule, lowerMessage) ==
  CASE rule \in {"luxe", "cyber", "minimal"} ->
         action.type = "change_theme" /\ action.payload = [themeId |-> rule]
    [] rule = "faster" ->
         action.type = "adjust_timing"
         /\ action.payload = [clipDuration |-> FasterClipDuration]
    [] rule = "slower" ->
         action.type = "adjust_timing"
         /\ action.payload = [clipDuration |-> SlowerClipDuration]
    [] OTHER ->
         action.type = "style_caption"
         /\ action.payload = Spread([allCaptions |-> TRUE],
                                    RuleOverride(rule, lowerMessage))

\* the manifest the rule's operation makes of m at time now
RuleManifest(rule, lowerMessage, m, now) ==
  CASE rule \in {"luxe", "cyber", "minimal"} -> applyTheme(m, rule, now)
    [] rule = "faster" -> adjustTiming(m, FasterClipDuration, now)
    [] rule = "slower" -> adjustTiming(m, SlowerClipDuration, now)
    [] OTHER -> StyleAllCaptions(m, RuleOverride(rule, lowerMessage), now)

\* C18: when some keyword rule matches the command, no LLM call is made and
\* exactly one operation is applied, that of the first matching rule in the
\* order luxe, cyber, minimal, faster, slower, color, bigger, smaller, bolder,
\* thinner, even when the command holds keywords of later rules.
C18_KeywordFirst ==
  (IsCommand /\ TriggeredBy[last.userMessage] # {}) =>
    LET rule == FirstTriggered(last.userMessage)
        out == last.outcome.value
    IN /\ last.called = <<>>
       /\ ~last.outcome.raised
       /\ Len(out.actions) = 1
       /\ IsRuleAction(out.actions[1], rule, LastLower)
       /\ out.manifest = RuleManifest(rule, LastLower, last.input,
                                      Get(out.manifest, "updatedAt"))

\* a command with keywords of three rules, while the LLM is configured and
\* would answer
C18_Witness ==
  /\ IsCommand
  /\ last.userMessage = "luxe but faster and bigger"
  /\ Cardinality(TriggeredBy[last.userMessage]) = 3
  /\ last.ai
  /\ last.llm \in StandbyRuns
  /\ last.called = <<>>
  /\ ThemeIdOf(last.outcome.value.manifest) = "luxe"
  /\ \A i \in DOMAIN last.input.clips :
       last.outcome.value.manifest.clips[i].duration = last.input.clips[i].duration

\* C19: the candidate models are called in list order, each at most once,
\* the next one only after a failure with status 429 or 503 and none after a
\* success or another failure; at most as many calls as there are models are
\* made, and the command ends in a response: the answer of the first model
\* that succeeded, otherwise the error fallback.
C19_RetryLadder ==
  IsCommand =>
    LET t == last.called
    IN /\ Len(t) <= Len(models)
       /\ \A i \in 1..Len(t) :
            /\ t[i].model = models[i]
            /\ t[i].status = last.llm.statuses[i]
       /\ \A i \in 2..Len(t) : t[i - 1].status \in {"429", "503"}
       /\ (t # <<>> /\ t[Len(t)].status \in {"429", "503"}) => Len(t) = Len(models)
       /\ ~last.outcome.raised
       /\ (t # <<>> /\ t[Len(t)].status # "ok") =>
            /\ last.outcome.value.manifest = last.input
            /\ last.outcome.value.actions = <<>>
            /\ last.outcome.value.message = ErrorMessage
       /\ (t # <<>> /\ t[Len(t)].status = "ok" /\ extractJSON(last.llm.text) # Null
             /\ \A i \in DOMAIN ActionsOf(last) : ~IsNullAction(ActionsOf(last)[i])) =>
            last.outcome.value.actions = ActionsOf(last)

\* the third model answers after the first two were overloaded
C19_Witness ==
  /\ IsCommand
  /\ last.llm.statuses = <<"503", "429", "ok">>
  /\ Len(last.called) = 3
  /\ last.called[3].status = "ok"
  /\ ~last.outcome.raised
  /\ last.outcome.value.message # ErrorMessage
  /\ last.outcome.value.manifest # last.input

\* the command is, letter for letter, one of the rule's trigger keywords
IsTriggerOf(rule, lowerMessage) ==
  \E k \in 1..Len(TriggerKeywords(rule)) : TriggerKeywords(rule)[k] = lowerMessage

\* C20: no trigger keyword belongs to two rules: a command that consists of
\* just one trigger keyword of a rule is handled by that rule ("calm", a
\* slower-pacing trigger, yields adjustTiming with 90).
C20_MutuallyExclusive ==
  \A k \in 1..Len(RuleOrder) :
    (IsCommand /\ IsTriggerOf(RuleOrder[k], LastLower)) =>
      /\ Len(last.outcome.value.actions) = 1
      /\ IsRuleAction(last.outcome.value.actions[1], RuleOrder[k], LastLower)

\* C21: at any time at most one manifest-editing request (a chat command or
\* a theme switch) is in flight; the panel starts no second one before the
\* first has returned.
C21_SingleFlight ==
  last.op = "chat" => Len(last.inFlight) <= 1

\* the page has just taken a returned manifest as the current one
JustAdopted ==
  /\ last.op = "chat"
  /\ last.event \in {"chatReturned", "themeReturned"}
  /\ last.adopted

\* C22: every manifest the page adopts has a version strictly greater than
\* the version of the manifest it replaces, and was computed from the
\* manifest it replaces.
C22_VersionGrows ==
  JustAdopted =>
    /\ manifest.version > last.replaced.version
    /\ last.request.sentFrom = last.replaced

\* C26: whenever processDirectorCommand returns a manifest whose version is
\* greater than the input's, the chat panel adopts it, also when the LLM
\* answer carries manifestChanges and no actions.
C26_BumpedIsAdopted ==
  (last.op = "chat" /\ last.event = "chatReturned"
     /\ ~last.request.result.raised
     /\ last.request.result.manifest.version > last.request.sentFrom.version)
    => /\ last.adopted
       /\ manifest = last.request.result.manifest

\* the latest call got an LLM answer without actions whose manifestChanges
\* carries a captions patch
CaptionsPatched ==
  /\ LLMAnswered
  /\ ActionsOf(last) = <<>>
  /\ Has(AnswerOf(last), "manifestChanges")
  /\ Has(AnswerOf(last).manifestChanges, "captions")

PatchOf(call) == AnswerOf(call).manifestChanges.captions

\* C23: a non-empty manifestChanges.captions shorter than the current caption
\* list leaves the number of captions as it was: caption i below the patch
\* length is the current caption overlaid field by field with patch entry i,
\* every later caption is unchanged.
C23_PartialPatch ==
  (/\ CaptionsPatched
   /\ Len(PatchOf(last)) > 0
   /\ Len(PatchOf(last)) < Len(last.input.captions)) =>
    LET in == last.input.captions
        out == last.outcome.value.manifest.captions
        patch == PatchOf(last)
    IN /\ ~last.outcome.raised
       /\ Len(out) = Len(in)
       /\ \A i \in 1..Len(patch) :
            /\ DOMAIN out[i] = DOMAIN in[i] \cup DOMAIN patch[i]
            /\ \A f \in DOMAIN patch[i] : out[i][f] = patch[i][f]
            /\ \A f \in DOMAIN in[i] \ DOMAIN patch[i] : out[i][f] = in[i][f]
       /\ \A i \in (Len(patch) + 1)..Len(in) : out[i] = in[i]

\* a one-entry patch on two captions: the first gets the patch's color and
\* keeps its frames, the second keeps its own color
C23_Witness ==
  /\ CaptionsPatched
  /\ Len(PatchOf(last)) = 1
  /\ Len(last.input.captions) = 2
  /\ Len(last.outcome.value.manifest.captions) = 2
  /\ last.outcome.value.manifest.captions[1].color = "#ff0000"
  /\ last.outcome.value.manifest.captions[1].endFrame = CaptionFrames
  /\ last.outcome.value.manifest.captions[2].color = "#0088ff"

\* C24: the script is never set directly: after a Director command that
\* changes a caption's text or the script, the returned manifest's script is
\* the captions' texts joined with newlines in order.
C24_ScriptDerived ==
  (IsCommand /\ ~last.outcome.raised) =>
    LET in == last.input
        out == last.outcome.value.manifest
        retexted == \/ Len(out.captions) # Len(in.captions)
                    \/ \E i \in DOMAIN out.captions :
                         Get(out.captions[i], "text") # Get(in.captions[i], "text")
    IN (retexted \/ out.script # in.script) =>
         /\ \A i \in DOMAIN out.captions : Has(out.captions[i], "text")
         /\ out.script = LinesOf(out.captions, 1)

\* the fields of a caption that override what its style and theme compute
OverrideFields == {"color", "fontSize", "fontWeight", "fontFamily"}

\* the caption without its overrides
Bare(caption) == [f \in DOMAIN caption \ OverrideFields |-> caption[f]]

\* the theme the themed composition renders with
ActiveTheme == IF Has(manifest, "theme") THEN manifest.theme ELSE THEME_PRESETS.cyber

C27_ActionsMeanChange ==
  (IsCommand /\ ~last.outcome.raised /\ last.outcome.value.actions # <<>>) =>
    /\ last.outcome.value.manifest # last.input
    /\ last.outcome.value.manifest.version = last.input.version + 1

C28_SamePaths ==
  IsThemeCall =>
    /\ last.output = (IF last.op = "switchTheme"
                      THEN switchTheme(last.input, last.themeId, last.output.updatedAt)
                      ELSE quickThemeChange(last.input, last.themeId,
                                            last.output.updatedAt))
    /\ \A t1 \in Times, t2 \in Times :
         /\ SameExcept(switchTheme(last.input, last.themeId, t1),
                       quickThemeChange(last.input, last.themeId, t2),
                       {"updatedAt"})
         /\ SameExcept(last.output,
                       IF last.op = "switchTheme"
                       THEN quickThemeChange(last.input, last.themeId, t2)
                       ELSE switchTheme(last.input, last.themeId, t1),
                       {"updatedAt"})
    /\ ~KnownTheme(last.themeId) =>
         /\ switchTheme(last.input, last.themeId, CHOOSE t \in Times : TRUE) = last.input
         /\ quickThemeChange(last.input, last.themeId, CHOOSE t \in Times : TRUE) = last.input
         /\ last.output = last.input

\* the picker switched a project with clips and captions to another theme
C28_Witness ==
  /\ IsThemeCall /\ last.op = "switchTheme"
  /\ KnownTheme(last.themeId)
  /\ last.input.clips # <<>> /\ last.input.captions # <<>>
  /\ last.input.theme.id # last.themeId
  /\ last.output.captions[1].style # last.input.captions[1].style
  /\ last.output.version = last.input.version + 1

\* the fields a Director command may change
CommandFields ==
  {"theme", "captions", "clips", "script", "videoIndex", "version", "updatedAt"}

\* C29: a Director command, on either tier and whatever manifestChanges the
\* LLM returns, changes nothing of the manifest outside theme, captions,
\* clips, script, videoIndex, version and updatedAt.
C29_Frame ==
  (IsCommand /\ ~last.outcome.raised) =>
    SameExcept(last.outcome.value.manifest, last.input, CommandFields)

\* the LLM's manifestChanges named fps, durationInFrames and id, and the
\* command returned a changed manifest
C29_Witness ==
  /\ LLMAnswered
  /\ ~last.outcome.raised
  /\ Has(AnswerOf(last), "manifestChanges")
  /\ {"fps", "durationInFrames", "id"} \subseteq DOMAIN AnswerOf(last).manifestChanges
  /\ AnswerOf(last).manifestChanges.fps # last.input.fps
  /\ last.outcome.value.manifest.script = "New script"
  /\ last.outcome.value.manifest.fps = last.input.fps

====
